---------------------------- MODULE Spec2Model ----------------------------
(***************************************************************************)
(* A model of the story engine's analytical services: the karma and        *)
(* faction ledger (services/karma_system.py), the story branch graph       *)
(* (services/story_graph.py) and the twist scheduler                       *)
(* (services/twist_engine.py).                                             *)
(*                                                                         *)
(* Each service is given its own specification over its own variables;     *)
(* the variables of the other services keep their initial value.           *)
(*   SpecKarma    apply_karma_change on bounded integer inputs             *)
(*   SpecFaction  update_faction_standing on bounded standings maps        *)
(*   SpecCond     _check_condition on bounded conditions, flags, decisions *)
(*   SpecGraph    a StoryGraph built by add_node / add_edge, then queried  *)
(***************************************************************************)
EXTENDS Integers, Sequences, FiniteSets, TLC

VARIABLES
    \* ---- KarmaSystem.apply_karma_change: arguments and returned pair
    k_pc,             \* "call" before the call, "ret" after it returned
    k_current,        \* argument current_karma
    k_change,         \* argument change
    k_new,            \* returned new_karma
    k_level_changed,  \* returned level_changed
    \* ---- KarmaSystem.update_faction_standing: arguments and returned pair
    f_pc,             \* "call" / "ret"
    f_standings,      \* argument current_standings (a dict: function on its keys)
    f_faction,        \* argument faction
    f_change,         \* argument change
    f_new,            \* returned new_standings
    f_events,         \* returned events (sequence of <<faction, event>>)
    \* ---- StoryGraph._check_condition: arguments and returned value
    c_pc,             \* "call" / "ret"
    c_condition,      \* argument condition (a string)
    c_decisions,      \* argument decisions_made
    c_flags,          \* argument story_flags
    c_result,         \* returned bool
    \* ---- StoryGraph: the object's fields, and one ending-probability query
    g_pc,             \* "build" while the graph is built, "ret" after the query
    g_nodes,          \* graph.nodes: node id -> node_type ("" for a node that
                      \*   add_edge created without attributes)
    g_edges,          \* graph.edges: <<from, to>> -> [condition, probability, label]
    g_endings,        \* _endings
    g_decision_points,\* _decision_points
    q_node,           \* calculate_ending_probabilities: current_node
    q_decisions,      \*   decisions_made
    q_flags,          \*   story_flags
    q_weights,        \*   the local probabilities before the normalisation
    q_result,         \*   the returned map, percentages in tenths
    q_raised,         \*   TRUE when the call raised NodeNotFound
    \* ---- TwistEngine: the object's fields and the last call made on it
    t_twists,             \* twists, in insertion order (a dict keeps it)
    t_red_herrings,       \* red_herrings, in insertion order
    t_revealed_twists,    \* revealed_twists
    t_deployed_herrings,  \* deployed_herrings
    t_foreshadowed,       \* foreshadowed: twist id -> count
    t_op,                 \* name of the last method called ("new" at first)
    t_story,              \* story_state of the last check_* call
    t_noise,              \* per twist, the order of the float scores that
                          \*   are equal as exact sums in the last check
    t_returned,           \* what the last check_* call returned: << >> for
                          \*   None or [], else the twists / herrings
    h_marked_revealed,    \* history: ids passed to mark_revealed so far
    h_marked_deployed,    \* history: ids passed to mark_herring_deployed
    r_pc,                 \* "call" / "ret" of one check_revelation_timing
    \* ---- TwistEngine.generate_foreshadowing: the last call
    t_scene_type,         \* argument scene_type
    t_emitted,            \* per returned hint, the element_id the loop built
    h_used,               \* history: element_ids whose hint was returned and
                          \*   then recorded with record_foreshadowing
    \* ---- NPCBrain._calculate_emotional_transition: one call
    e_pc,                 \* "call" before the call, "ret" after it
    e_current_state,      \* argument current_state
    e_action_type,        \* argument action_type
    e_relation_change,    \* argument relation_change
    e_new_state,          \* the returned emotional state
    \* ---- NPCBrain.calculate_reaction and the /npc-reaction handler
    n_pc,                 \* "call" / "ret" of one calculate_reaction call;
                          \*   "idle" between /npc-reaction requests
    n_npc,                \* the NPCState built from the npc row
    n_relationship,       \* the NPCRelationship: the argument of the call,
                          \*   and the room_npc_relationships row it is read
                          \*   from and written to by the handler
    n_action_type,        \* argument action_type of the last call / request
    n_reaction,           \* the NPCReaction of the last call / request
    n_memory,             \* the cached NPC memory: None or Some(dict)
    h_betrayals,          \* history: reactions with triggers_betrayal
    h_redemptions,        \* history: reactions with triggers_redemption
    \* ---- /process-decision, /update-progress, /process-response on a room
    p_op,                 \* the last request served
    p_karma_change,       \* the karma effect it carried (0 when none)
    p_progress,           \* the room_campaign_progress row of the room
    p_story_state,        \* the cached story state: None or Some(dict)
    p_pending,            \* the cached pending decision: None or Some(code)
    p_ai_context,         \* whether an AI context is cached
    \* ---- NarrativeAnalyzer: one _classify_action_type or
    \* ---- _detect_npc_interactions call
    a_pc,                 \* "call", then "classified" or "detected"
    a_message,            \* argument message: its words, lower-cased
    a_active_npcs,        \* argument active_npcs
    a_action_type,        \* the ActionType _classify_action_type returned
    a_confidence,         \* the confidence it returned, in sixths
    a_interactions,       \* the dict _detect_npc_interactions returned
    \* ---- StoryGraph.get_decision_points_ahead on a graph built by
    \* ---- add_node / add_edge
    d_pc,                 \* "build" while the graph is built, "ret" after
    d_nodes,              \* graph.nodes: the node ids
    d_succ,               \* graph.successors: node id -> its successors in
                          \*   the order their edges were first added
    d_decision_points,    \* _decision_points
    d_current,            \* argument current_node
    d_max_depth,          \* argument max_depth
    d_result,             \* the returned list, as [node_id, depth] records
    d_raised,             \* TRUE when the call raised NetworkXError
    \* ---- StoryGraph.build_from_campaign_data (the graph is g_nodes, ...)
    b_campaign,           \* argument campaign_data
    \* ---- Two requests on one room, /update-progress or /process-response,
    \* ---- that run concurrently: each is at one of its await points
    x_kind,               \* per request, the handler that serves it
    x_change,             \* per request, the karma change it carries
    x_pc,                 \* per request, the await point it has reached
    x_progress,           \* per request, the karma of the progress row it
                          \*   read: None before get_room_progress returns
    x_karma,              \* the karma of the room_campaign_progress row
    x_cached,             \* the karma of the cached story state
    h_karma,              \* history: the karma before the two requests
    \* ---- The room of the progress requests
    y_exists              \* the room has a room_campaign_progress row

varsKarma   == <<k_pc, k_current, k_change, k_new, k_level_changed>>
varsFaction == <<f_pc, f_standings, f_faction, f_change, f_new, f_events>>
varsCond    == <<c_pc, c_condition, c_decisions, c_flags, c_result>>
varsGraph   == <<g_pc, g_nodes, g_edges, g_endings, g_decision_points,
                 q_node, q_decisions, q_flags, q_weights, q_result, q_raised>>
varsTwist   == <<t_twists, t_red_herrings, t_revealed_twists,
                 t_deployed_herrings, t_foreshadowed, t_op, t_story, t_noise,
                 t_returned, h_marked_revealed, h_marked_deployed, r_pc>>
varsForeshadow == <<t_scene_type, t_emitted, h_used>>
varsEmotion == <<e_pc, e_current_state, e_action_type, e_relation_change,
                 e_new_state>>
varsNpc     == <<n_pc, n_npc, n_relationship, n_action_type, n_reaction,
                 n_memory, h_betrayals, h_redemptions>>
varsProgress == <<p_op, p_karma_change, p_progress, p_story_state, p_pending,
                  p_ai_context>>
varsAnalyzer == <<a_pc, a_message, a_active_npcs, a_action_type, a_confidence,
                  a_interactions>>
varsAhead   == <<d_pc, d_nodes, d_succ, d_decision_points, d_current,
                 d_max_depth, d_result, d_raised>>
varsCampaign == <<b_campaign>>
varsRace    == <<x_kind, x_change, x_pc, x_progress, x_karma, x_cached, h_karma>>
varsRoom    == <<y_exists>>
varsNew     == <<varsAhead, varsCampaign, varsRace, varsRoom>>
varsLater   == <<varsEmotion, varsNpc, varsProgress, varsAnalyzer, varsNew>>
varsRest    == <<varsForeshadow, varsLater>>
varsEngine  == <<varsKarma, varsFaction, varsCond, varsGraph, varsTwist,
                 varsForeshadow>>
varsButEmotion  == <<varsEngine, varsNpc, varsProgress, varsAnalyzer, varsNew>>
varsButNpc      == <<varsEngine, varsEmotion, varsProgress, varsAnalyzer, varsNew>>
varsButProgress == <<varsEngine, varsEmotion, varsAnalyzer, varsNew>>
varsButAnalyzer == <<varsEngine, varsEmotion, varsNpc, varsProgress, varsNew>>
varsOld     == <<varsEngine, varsEmotion, varsNpc, varsProgress, varsAnalyzer>>
varsButAhead == <<varsOld, varsCampaign, varsRace, varsRoom>>
varsButCampaign == <<varsKarma, varsFaction, varsCond, varsTwist, varsForeshadow,
                     varsEmotion, varsNpc, varsProgress, varsAnalyzer, varsAhead,
                     varsRace, varsRoom>>
varsButRace == <<varsOld, varsAhead, varsCampaign, varsRoom>>
varsButRoom == <<varsEngine, varsEmotion, varsNpc, varsAnalyzer, varsAhead,
                 varsCampaign, varsRace>>
vars        == <<varsKarma, varsFaction, varsCond, varsGraph, varsTwist, varsRest>>

(***************************************************************************)
(* Python helpers                                                          *)
(***************************************************************************)
Max(a, b) == IF a >= b THEN a ELSE b
Min(a, b) == IF a <= b THEN a ELSE b

\* max(0, min(100, v)): the clamp written out at every score write.
Clamp100(v) == Max(0, Min(100, v))

\* dict.get(key, default)
DictGet(d, key, default) == IF key \in DOMAIN d THEN d[key] ELSE default

\* d[key] = value on a dict (adds the key when it is missing)
DictSet(d, key, value) ==
    [x \in (DOMAIN d) \cup {key} |-> IF x = key THEN value ELSE d[x]]

\* The empty dict.
EmptyDict == [x \in {} |-> 0]

Range(s) == {s[i] : i \in DOMAIN s}

(***************************************************************************)
(* Bounds of the karma inputs                                              *)
(***************************************************************************)
\* current_karma ranges over -KarmaSlack .. 100 + KarmaSlack
KarmaSlack == 12
\* change ranges over -MaxChange .. MaxChange
MaxChange == 115

KarmaInputs  == (0 - KarmaSlack) .. (100 + KarmaSlack)
ChangeInputs == (0 - MaxChange) .. MaxChange

(***************************************************************************)
(* KarmaSystem.KARMA_LEVELS, in the dict's order; get_karma_level          *)
(***************************************************************************)
KARMA_LEVELS ==
    << [low |-> 90, high |-> 100, name |-> "heroico"],
       [low |-> 70, high |-> 89,  name |-> "honorable"],
       [low |-> 50, high |-> 69,  name |-> "neutral"],
       [low |-> 30, high |-> 49,  name |-> "dudoso"],
       [low |-> 10, high |-> 29,  name |-> "infame"],
       [low |-> 0,  high |-> 9,   name |-> "villano"] >>

\* The first level of KARMA_LEVELS whose range holds v, "neutral" when none does.
LevelOf(v) ==
    LET hits == {i \in DOMAIN KARMA_LEVELS :
                    KARMA_LEVELS[i].low <= v /\ v <= KARMA_LEVELS[i].high}
    IN  IF hits = {} THEN "neutral"
        ELSE KARMA_LEVELS[CHOOSE i \in hits : \A j \in hits : i <= j].name

\* A get_karma_level that forgets to clamp its argument first.
GetKarmaLevelUnclamped(karma) == LevelOf(karma)

\* get_karma_level(karma): the level name (the description is not modelled).
GetKarmaLevel(karma) == LevelOf(Clamp100(karma))

\* An apply_karma_change that clamps only from below.
ApplyKarmaChangeNoCeiling(current_karma, change) ==
    LET old_level == GetKarmaLevel(current_karma)
        new_karma == Max(0, current_karma + change)
        new_level == GetKarmaLevel(new_karma)
    IN  [new_karma |-> new_karma, level_changed |-> (old_level # new_level)]

\* apply_karma_change(current_karma, change) -> (new_karma, level_changed)
ApplyKarmaChangeResult(current_karma, change) ==
    LET old_level == GetKarmaLevel(current_karma)
        new_karma == Clamp100(current_karma + change)
        new_level == GetKarmaLevel(new_karma)
    IN  [new_karma |-> new_karma, level_changed |-> (old_level # new_level)]

(***************************************************************************)
(* FACTION_THRESHOLDS (config.py) and the relations hard-coded in          *)
(* update_faction_standing                                                 *)
(***************************************************************************)
Factions ==
    {"corona", "pueblo", "orden_llama", "rebeldes", "gremio_mercaderes",
     "gremio_ladrones"}

FACTION_THRESHOLDS ==
    [corona |-> [trust_threshold |-> 60, betray_threshold |-> 30,
                 hero_threshold |-> 80],
     pueblo |-> [hero_threshold |-> 80, villain_threshold |-> 20],
     orden_llama |-> [recruit_threshold |-> 0 - 40],
     gremio_mercaderes |-> [discount_threshold |-> 70, ban_threshold |-> 20]]

\* faction_relations: related factions in the dict's order, each ratio as the
\* fraction num/den (-0.5, -0.3, -0.2).
FactionRelations ==
    [corona      |-> << [faction |-> "orden_llama", num |-> 0 - 5, den |-> 10] >>,
     orden_llama |-> << [faction |-> "corona", num |-> 0 - 3, den |-> 10],
                        [faction |-> "pueblo", num |-> 0 - 2, den |-> 10] >>,
     rebeldes    |-> << [faction |-> "corona", num |-> 0 - 3, den |-> 10] >>]

\* int(x) of the quotient n/d, d > 0: truncation toward zero.
TruncDiv(n, d) == IF n >= 0 THEN n \div d ELSE 0 - ((0 - n) \div d)

\* A related change rounded down instead of toward zero.
RelatedChangeFloored(change, rel) == (change * rel.num) \div rel.den

\* int(change * ratio)
RelatedChange(change, rel) == TruncDiv(change * rel.num, rel.den)

\* The events of the threshold checks, in the order the code appends them.
ThresholdEvents(faction, old_value, new_value) ==
    IF faction \notin DOMAIN FACTION_THRESHOLDS THEN << >>
    ELSE
      LET thresholds == FACTION_THRESHOLDS[faction]
          has(k) == k \in DOMAIN thresholds
          trust ==
            IF ~has("trust_threshold") THEN << >>
            ELSE IF old_value < thresholds["trust_threshold"]
                    /\ thresholds["trust_threshold"] <= new_value
                 THEN << <<faction, "trust_gained">> >>
            ELSE IF old_value >= thresholds["trust_threshold"]
                    /\ thresholds["trust_threshold"] > new_value
                 THEN << <<faction, "trust_lost">> >>
            ELSE << >>
          betray ==
            IF has("betray_threshold")
               /\ old_value >= thresholds["betray_threshold"]
               /\ thresholds["betray_threshold"] > new_value
            THEN << <<faction, "turned_hostile">> >> ELSE << >>
          hero ==
            IF has("hero_threshold")
               /\ old_value < thresholds["hero_threshold"]
               /\ thresholds["hero_threshold"] <= new_value
            THEN << <<faction, "hero_status">> >> ELSE << >>
          villain ==
            IF has("villain_threshold")
               /\ old_value >= thresholds["villain_threshold"]
               /\ thresholds["villain_threshold"] > new_value
            THEN << <<faction, "villain_status">> >> ELSE << >>
          recruit ==
            IF has("recruit_threshold")
               /\ old_value > thresholds["recruit_threshold"]
               /\ thresholds["recruit_threshold"] >= new_value
            THEN << <<faction, "recruitment_attempt">> >> ELSE << >>
      IN  trust \o betray \o hero \o villain \o recruit

\* The loop over faction_relations[faction]: entries i..Len(rels) applied to m.
RECURSIVE PropagateFrom(_, _, _, _)
PropagateFrom(m, rels, i, change) ==
    IF i > Len(rels) THEN m
    ELSE LET rel == rels[i]
             m2  == IF rel.faction \in DOMAIN m
                    THEN DictSet(m, rel.faction,
                                 Clamp100(m[rel.faction] + RelatedChange(change, rel)))
                    ELSE m
         IN  PropagateFrom(m2, rels, i + 1, change)

\* A propagation that forgets to clamp the related faction.
PropagateUnclamped(m, faction, change) ==
    IF faction \in DOMAIN FactionRelations
    THEN LET rel == FactionRelations[faction][1]
         IN  IF rel.faction \in DOMAIN m
             THEN DictSet(m, rel.faction, m[rel.faction] + RelatedChange(change, rel))
             ELSE m
    ELSE m

Propagate(m, faction, change) ==
    IF faction \in DOMAIN FactionRelations
    THEN PropagateFrom(m, FactionRelations[faction], 1, change)
    ELSE m

\* An update that stores the faction's new value only when it has an entry.
UpdateFactionStandingKnownOnly(current_standings, faction, change) ==
    LET old_value == DictGet(current_standings, faction, 50)
        new_value == Clamp100(old_value + change)
        stored    == IF faction \in DOMAIN current_standings
                     THEN DictSet(current_standings, faction, new_value)
                     ELSE current_standings
    IN  [new_standings |-> Propagate(stored, faction, change),
         events        |-> ThresholdEvents(faction, old_value, new_value)]

\* An update that also reports the crossings of the related factions.
UpdateFactionStandingAllEvents(current_standings, faction, change) ==
    LET old_value == DictGet(current_standings, faction, 50)
        new_value == Clamp100(old_value + change)
        stored    == DictSet(current_standings, faction, new_value)
        out       == Propagate(stored, faction, change)
        rels      == IF faction \in DOMAIN FactionRelations
                     THEN FactionRelations[faction] ELSE << >>
        first     == IF rels # << >> /\ rels[1].faction \in DOMAIN stored
                     THEN ThresholdEvents(rels[1].faction,
                                          stored[rels[1].faction],
                                          out[rels[1].faction])
                     ELSE << >>
    IN  [new_standings |-> out,
         events        |-> ThresholdEvents(faction, old_value, new_value) \o first]

\* update_faction_standing(current_standings, faction, change)
\*   -> (new_standings, events); current_standings itself is copied, not changed.
UpdateFactionStandingResult(current_standings, faction, change) ==
    LET old_value == DictGet(current_standings, faction, 50)
        new_value == Clamp100(old_value + change)
        stored    == DictSet(current_standings, faction, new_value)
    IN  [new_standings |-> Propagate(stored, faction, change),
         events        |-> ThresholdEvents(faction, old_value, new_value)]

(***************************************************************************)
(* Inputs of update_faction_standing                                       *)
(***************************************************************************)
\* Standings of the updated faction: the ends, the middle, and each
\* configured threshold with the value just below it.
OwnStandings == {0, 19, 20, 29, 30, 50, 59, 60, 69, 70, 79, 80, 100}
\* Standings of a faction the update is propagated to.
RelatedStandings == {5, 55, 95}
\* Standing of any other faction of the map.
OtherStandings == {45}
FactionChanges == {0 - 100, 0 - 50, 0 - 21, 0 - 20, 0 - 10, 0 - 3, 0 - 1, 0,
                   1, 3, 10, 20, 21, 50, 100}

RelatedOf(faction) ==
    IF faction \in DOMAIN FactionRelations
    THEN {FactionRelations[faction][i].faction :
             i \in DOMAIN FactionRelations[faction]}
    ELSE {}

StandingsAllowed(faction, g) ==
    IF g = faction THEN OwnStandings
    ELSE IF g \in RelatedOf(faction) THEN RelatedStandings
    ELSE OtherStandings

\* All dicts over a subset of S whose values are allowed for an update of faction.
RECURSIVE StandingsOver(_, _)
StandingsOver(faction, S) ==
    IF S = {} THEN {EmptyDict}
    ELSE LET g    == CHOOSE x \in S : TRUE
             rest == StandingsOver(faction, S \ {g})
         IN  rest \cup {DictSet(m, g, v) : m \in rest,
                                           v \in StandingsAllowed(faction, g)}

(***************************************************************************)
(* Python values and strings                                               *)
(*                                                                         *)
(* A string is the sequence of its characters.  A value of a flag, of a    *)
(* recorded decision or of an optional field is the record                 *)
(* [t |-> its type, s |-> str(value)].                                     *)
(***************************************************************************)
S_true     == <<"t", "r", "u", "e">>
S_false    == <<"f", "a", "l", "s", "e">>
S_decision == <<"d", "e", "c", "i", "s", "i", "o", "n">>

PyNone    == [t |-> "none", s |-> <<"N", "o", "n", "e">>]
PyBool(b) == [t |-> "bool", s |-> IF b THEN <<"T", "r", "u", "e">>
                                       ELSE <<"F", "a", "l", "s", "e">>]
PyStr(str) == [t |-> "str", s |-> str]
\* The integers 0 and 1.
PyInt0 == [t |-> "int", s |-> <<"0">>]
PyInt1 == [t |-> "int", s |-> <<"1">>]

\* bool(v)
Truthy(v) ==
    CASE v.t = "none" -> FALSE
      [] v.t = "bool" -> v.s = <<"T", "r", "u", "e">>
      [] v.t = "str"  -> v.s # << >>
      [] v.t = "int"  -> v.s # <<"0">>

\* str.lower() on the Latin letters.
UpperToLower ==
    [A |-> "a", B |-> "b", C |-> "c", D |-> "d", E |-> "e", F |-> "f",
     G |-> "g", H |-> "h", I |-> "i", J |-> "j", K |-> "k", L |-> "l",
     M |-> "m", N |-> "n", O |-> "o", P |-> "p", Q |-> "q", R |-> "r",
     S |-> "s", T |-> "t", U |-> "u", V |-> "v", W |-> "w", X |-> "x",
     Y |-> "y", Z |-> "z"]
LowerChar(c) == IF c \in DOMAIN UpperToLower THEN UpperToLower[c] ELSE c
Lower(str) == [i \in 1..Len(str) |-> LowerChar(str[i])]

\* str.split(":"): cur is the part being read, acc the parts already closed.
RECURSIVE SplitFrom(_, _, _, _)
SplitFrom(str, i, cur, acc) ==
    IF i > Len(str) THEN Append(acc, cur)
    ELSE IF str[i] = ":" THEN SplitFrom(str, i + 1, << >>, Append(acc, cur))
    ELSE SplitFrom(str, i + 1, Append(cur, str[i]), acc)
Split(str) == SplitFrom(str, 1, << >>, << >>)

(***************************************************************************)
(* StoryGraph._check_condition                                             *)
(***************************************************************************)
\* A _check_condition that compares the expected part without lower().
CheckConditionCaseSensitive(condition, decisions_made, story_flags) ==
    LET parts == Split(condition)
    IN  IF Len(parts) = 2
        THEN LET actual == DictGet(story_flags, parts[1], PyNone)
             IN  IF parts[2] = S_true THEN Truthy(actual)
                 ELSE IF parts[2] = S_false THEN ~Truthy(actual)
                 ELSE actual.s = parts[2]
        ELSE IF Len(parts) = 3 /\ parts[1] = S_decision
        THEN LET actual_option == DictGet(decisions_made, parts[2], PyNone)
             IN  actual_option.t = "str" /\ actual_option.s = parts[3]
        ELSE TRUE

\* _check_condition(condition, decisions_made, story_flags) -> bool
CheckCondition(condition, decisions_made, story_flags) ==
    LET parts == Split(condition)
    IN  IF Len(parts) = 2
        THEN LET flag_name == parts[1]
                 expected  == parts[2]
                 actual    == DictGet(story_flags, flag_name, PyNone)
             IN  IF Lower(expected) = S_true THEN Truthy(actual)
                 ELSE IF Lower(expected) = S_false THEN ~Truthy(actual)
                 ELSE actual.s = expected
        ELSE IF Len(parts) = 3 /\ parts[1] = S_decision
        THEN LET decision_code   == parts[2]
                 expected_option == parts[3]
                 actual_option   == DictGet(decisions_made, decision_code, PyNone)
             IN  actual_option.t = "str" /\ actual_option.s = expected_option
        ELSE TRUE

(***************************************************************************)
(* Inputs of _check_condition                                              *)
(***************************************************************************)
CondStrings ==
    { <<"x", ":", "t", "r", "u", "e">>,                       \* x:true
      <<"x", ":", "f", "a", "l", "s", "e">>,                  \* x:false
      <<"x", ":", "T", "r", "u", "e">>,                       \* x:True
      <<"x", ":", "F", "A", "L", "S", "E">>,                  \* x:FALSE
      <<"x", ":", "y", "e", "s">>,                            \* x:yes
      <<"x", ":", "1">>,                                      \* x:1
      <<"x", ":", "N", "o", "n", "e">>,                       \* x:None
      <<"x", ":">>,                                           \* x:
      <<"y", ":", "t", "r", "u", "e">>,                       \* y:true
      <<"d", "e", "c", "i", "s", "i", "o", "n", ":", "d", ":", "a">>,
      <<"d", "e", "c", "i", "s", "i", "o", "n", ":", "d", ":", "1">>,
      <<"D", "e", "c", "i", "s", "i", "o", "n", ":", "d", ":", "a">>,
      <<"x", ":", "d", ":", "a">>,                            \* x:d:a
      <<"d", "e", "c", "i", "s", "i", "o", "n", ":", "d", ":", "a", ":", "b">>,
      <<"x">>,                                                \* x
      << >> }                                                 \* the empty string

FlagValues ==
    { PyNone, PyBool(TRUE), PyBool(FALSE), PyStr(<<"y", "e", "s">>),
      PyStr(<< >>), PyStr(S_true), PyInt0, PyInt1 }

\* story_flags: the flag x absent or with one of FlagValues, y absent or True.
FlagDicts ==
    LET xs == {EmptyDict} \cup {DictSet(EmptyDict, <<"x">>, v) : v \in FlagValues}
    IN  xs \cup {DictSet(m, <<"y">>, PyBool(TRUE)) : m \in xs}

\* decisions_made: the decision d absent, chosen as "a" or "b", or stored as 1.
DecisionDicts ==
    {EmptyDict} \cup {DictSet(EmptyDict, <<"d">>, v) :
                        v \in {PyStr(<<"a">>), PyStr(<<"b">>), PyInt1}}

(***************************************************************************)
(* StoryGraph: nodes, edges, path finding, ending probabilities            *)
(***************************************************************************)
\* At most MaxEdges edges are added to a graph.
MaxEdges == 3

\* The node ids of the graphs built, in the order add_node is called, and the
\* node_type each is added with.
NodeOrder == <<"a", "b", "e1", "e2">>
NodeIds   == Range(NodeOrder)
NodeTypeOf == [a |-> "scene", b |-> "decision", e1 |-> "ending", e2 |-> "ending"]

\* The pairs add_edge is called with.
EdgePairs ==
    { <<"a", "b">>, <<"b", "a">>, <<"a", "e1">>, <<"b", "e1">>,
      <<"a", "e2">>, <<"e1", "e2">> }

\* The attributes add_edge is called with.  A probability is counted in
\* halves: 2 is 1.0, 1 is 0.5, 0 is 0.0.
EdgeAttrs ==
    { [condition |-> PyNone, probability |-> 2, label |-> PyNone],
      [condition |-> PyStr(<<"x", ":", "t", "r", "u", "e">>),
       probability |-> 1, label |-> PyNone],
      [condition |-> PyStr(<<"d", "e", "c", "i", "s", "i", "o", "n", ":", "d", ":", "a">>),
       probability |-> 2, label |-> PyNone],
      [condition |-> PyNone, probability |-> 0, label |-> PyNone] }

\* The (decisions_made, story_flags) pairs a query is made with.
QueryStates ==
    { [decisions |-> EmptyDict, flags |-> EmptyDict],
      [decisions |-> DictSet(EmptyDict, <<"d">>, PyStr(<<"a">>)),
       flags |-> DictSet(EmptyDict, <<"x">>, PyBool(TRUE))] }

\* The longest simple path has one edge less than there are nodes.
MaxPathEdges == Cardinality(NodeIds) - 1

RECURSIVE Pow(_, _)
Pow(b, n) == IF n = 0 THEN 1 ELSE b * Pow(b, n - 1)

RECURSIVE SumOver(_, _)
SumOver(f, S) ==
    IF S = {} THEN 0
    ELSE LET x == CHOOSE y \in S : TRUE IN f[x] + SumOver(f, S \ {x})

SetMax(S) == CHOOSE x \in S : \A y \in S : x >= y

\* The simple paths that extend path (which does not hold target) to target.
RECURSIVE PathsFrom(_, _, _)
PathsFrom(edges, path, target) ==
    LET last == path[Len(path)]
        succ == {e[2] : e \in {x \in DOMAIN edges : x[1] = last}} \ Range(path)
    IN  UNION { IF v = target THEN {Append(path, v)}
                ELSE PathsFrom(edges, Append(path, v), target) : v \in succ }

\* nx.all_simple_paths(graph, source, target).  For source = target the
\* networkx release decides whether the one-node path is yielded: selfPath.
AllSimplePaths(edges, source, target, selfPath) ==
    IF source = target
    THEN IF selfPath THEN {<<source>>} ELSE {}
    ELSE PathsFrom(edges, <<source>>, target)

\* find_paths_to_endings(from_node): ending id -> its paths, endings without
\* a path left out.
FindPathsToEndings(edges, endings, from_node, selfPath) ==
    LET found == {e \in endings :
                    AllSimplePaths(edges, from_node, e, selfPath) # {}}
    IN  [e \in found |-> AllSimplePaths(edges, from_node, e, selfPath)]

\* The factor one edge contributes to a path's weight, in twentieths: its
\* probability (halves) times 0.1 (one tenth) when its condition is set and
\* not satisfied, times 1 (ten tenths) otherwise.
EdgeFactor(edge_data, decisions_made, story_flags) ==
    edge_data.probability *
        (IF Truthy(edge_data.condition)
            /\ ~CheckCondition(edge_data.condition.s, decisions_made, story_flags)
         THEN 1 ELSE 10)

RECURSIVE FactorsFrom(_, _, _, _, _)
FactorsFrom(edges, path, i, decisions_made, story_flags) ==
    IF i >= Len(path) THEN 1
    ELSE EdgeFactor(edges[<<path[i], path[i + 1]>>], decisions_made, story_flags)
         * FactorsFrom(edges, path, i + 1, decisions_made, story_flags)

\* _calculate_path_weight(path, decisions_made, story_flags).  The float
\* weight w is the integer w * 20^MaxPathEdges.
CalculatePathWeight(edges, path, decisions_made, story_flags) ==
    FactorsFrom(edges, path, 1, decisions_made, story_flags)
        * Pow(20, MaxPathEdges - (Len(path) - 1))

\* An ending weight that adds up the weights of the ending's paths.
EndingWeightSum(edges, paths, decisions_made, story_flags) ==
    LET w == [p \in paths |-> CalculatePathWeight(edges, p, decisions_made, story_flags)]
    IN  SumOver(w, paths)

\* ending_weight = max(path_weights)
EndingWeight(edges, paths, decisions_made, story_flags) ==
    SetMax({CalculatePathWeight(edges, p, decisions_made, story_flags) : p \in paths})

\* round(n / d * 100, 1) in tenths of a percent, for the quotient n/d of two
\* weights: the nearest tenth; at an exact half the binary float decides the
\* direction: up.
RoundTenths(n, d, up) ==
    LET q == (1000 * n) \div d
        r == (1000 * n) % d
    IN  IF 2 * r < d THEN q
        ELSE IF 2 * r > d THEN q + 1
        ELSE IF up THEN q + 1 ELSE q

\* The endings whose percentage is at an exact half of a tenth.
RoundingTies(weights) ==
    LET total == SumOver(weights, DOMAIN weights)
    IN  {e \in DOMAIN weights :
            total > 0 /\ 2 * ((1000 * weights[e]) % total) = total}

\* A normalisation that divides by the largest weight, not by the total.
NormalizeByLargest(weights, ups) ==
    LET largest == SetMax({weights[e] : e \in DOMAIN weights})
    IN  IF largest > 0
        THEN [e \in DOMAIN weights |-> RoundTenths(weights[e], largest, e \in ups)]
        ELSE weights

\* "Normalize to percentages": the loop under if total_weight > 0.
Normalize(weights, ups) ==
    LET total_weight == SumOver(weights, DOMAIN weights)
    IN  IF total_weight > 0
        THEN [e \in DOMAIN weights |->
                 RoundTenths(weights[e], total_weight, e \in ups)]
        ELSE weights

(***************************************************************************)
(* TwistEngine (services/twist_engine.py)                                  *)
(***************************************************************************)
\* The Twist fields the engine's checks read.
Twist(twist_id, required_clues, min_clues_for_reveal, required_flags, required_act) ==
    [twist_id |-> twist_id, required_clues |-> required_clues,
     min_clues_for_reveal |-> min_clues_for_reveal,
     required_flags |-> required_flags, required_act |-> required_act]

\* The RedHerring fields the engine's checks read.  deploy_after_clue "" and
\* deploy_in_act 0 stand for None as well: the code tests both for truth.
RedHerring(herring_id, deploy_after_clue, deploy_in_act) ==
    [herring_id |-> herring_id, deploy_after_clue |-> deploy_after_clue,
     deploy_in_act |-> deploy_in_act]

\* A story_state dict with its four keys.
StoryState(current_act, revealed_clues, story_flags, tension_level) ==
    [current_act |-> current_act, revealed_clues |-> revealed_clues,
     story_flags |-> story_flags, tension_level |-> tension_level]

\* self.twists[twist.twist_id] = twist: a key already present keeps its
\* place in the dict's order, a new key goes last.
RegisterTwistResult(twists, twist) ==
    IF \E i \in 1..Len(twists) : twists[i].twist_id = twist.twist_id
    THEN [i \in 1..Len(twists) |->
             IF twists[i].twist_id = twist.twist_id THEN twist ELSE twists[i]]
    ELSE Append(twists, twist)

\* self.red_herrings[herring.herring_id] = herring
RegisterRedHerringResult(herrings, herring) ==
    IF \E i \in 1..Len(herrings) : herrings[i].herring_id = herring.herring_id
    THEN [i \in 1..Len(herrings) |->
             IF herrings[i].herring_id = herring.herring_id
             THEN herring ELSE herrings[i]]
    ELSE Append(herrings, herring)

\* A count of all revealed clues, required by the twist or not.
CluesRevealed(twist, revealed_clues) == Cardinality(revealed_clues)

\* len(set(twist.required_clues) & revealed_clues)
CluesFound(twist, revealed_clues) ==
    Cardinality(Range(twist.required_clues) \cap revealed_clues)

\* tension_bonuses.get(tension_level, 0.05), in sixtieths
TensionBonus(tension_level) ==
    CASE tension_level = "low"      -> 0
      [] tension_level = "normal"   -> 3
      [] tension_level = "high"     -> 9
      [] tension_level = "critical" -> 12
      [] OTHER                      -> 3

\* The four terms of _calculate_readiness, in sixtieths (exact for a list
\* of required clues whose length divides 24), and whether the twist has
\* required clues: twists with the same terms get the same float score.
ReadinessTerms(twist, clues_found, foreshadowed, story_state, tension_level) ==
    LET has_clues        == Len(twist.required_clues) > 0
        clue_term        == IF has_clues
                            THEN (24 * clues_found) \div Len(twist.required_clues)
                            ELSE 18
        foreshadow_count == DictGet(foreshadowed, twist.twist_id, 0)
        foreshadow_score == Min(foreshadow_count, 3) * 4
        current_act      == DictGet(story_state, "current_act", 1)
        act_bonus        == IF current_act > twist.required_act
                            THEN Min((current_act - twist.required_act) * 6, 12)
                            ELSE 0
    IN  <<IF has_clues THEN 1 ELSE 0, clue_term, foreshadow_score,
          TensionBonus(tension_level), act_bonus>>

\* _calculate_readiness: the score as the exact sum, in sixtieths.
CalculateReadiness(twist, clues_found, foreshadowed, story_state, tension_level) ==
    LET terms == ReadinessTerms(twist, clues_found, foreshadowed, story_state,
                                tension_level)
    IN  terms[2] + terms[3] + terms[4] + terms[5]

\* readiness >= 0.7.  For every combination of terms the float sum is at
\* least the float 0.7 exactly when the exact sum is at least 7/10.
ReadinessThreshold == 42

\* The terms and the exact score of the twist at position i for a story state.
TermsAt(twists, foreshadowed, story_state, i) ==
    ReadinessTerms(twists[i],
                   CluesFound(twists[i], DictGet(story_state, "revealed_clues", {})),
                   foreshadowed, story_state,
                   DictGet(story_state, "tension_level", "normal"))

ScoreAt(twists, foreshadowed, story_state, i) ==
    LET terms == TermsAt(twists, foreshadowed, story_state, i)
    IN  terms[2] + terms[3] + terms[4] + terms[5]

\* Float sums of different terms that are equal as exact sums may differ in
\* the last place (0.3 + 0.2 + 0.2 is 0.7 and 0.4 + 0.2 + 0.1 is
\* 0.7000000000000001): noise[i] in -1..1 orders such scores, every order
\* being possible; scores of the same terms are the same float.
NoiseChoices(twists, foreshadowed, story_state) ==
    {noise \in [1..Len(twists) -> {-1, 0, 1}] :
        \A i \in 1..Len(twists) :
            /\ noise[i] # 0 =>
                   \E j \in 1..(i - 1) :
                       /\ ScoreAt(twists, foreshadowed, story_state, j)
                              = ScoreAt(twists, foreshadowed, story_state, i)
                       /\ TermsAt(twists, foreshadowed, story_state, j)
                              # TermsAt(twists, foreshadowed, story_state, i)
            /\ \A j \in 1..(i - 1) :
                   TermsAt(twists, foreshadowed, story_state, j)
                       = TermsAt(twists, foreshadowed, story_state, i)
                   => noise[j] = noise[i]}

\* The float score as an integer that keeps the order: three times the
\* exact sum plus the noise.
ReadinessFloat(score, noise_i) == 3 * score + noise_i

IsCandidateIgnoringRevealed(twist, revealed_twists, foreshadowed, story_state) ==
    LET current_act    == DictGet(story_state, "current_act", 1)
        revealed_clues == DictGet(story_state, "revealed_clues", {})
        story_flags    == DictGet(story_state, "story_flags", EmptyDict)
        tension_level  == DictGet(story_state, "tension_level", "normal")
        clues_found    == CluesFound(twist, revealed_clues)
    IN  /\ ~(current_act < twist.required_act)
        /\ \A i \in 1..Len(twist.required_flags) :
               Truthy(DictGet(story_flags, twist.required_flags[i], PyNone))
        /\ ~(clues_found < twist.min_clues_for_reveal)
        /\ CalculateReadiness(twist, clues_found, foreshadowed, story_state,
                              tension_level) >= ReadinessThreshold

\* The body of the loop of check_revelation_timing: TRUE when the twist is
\* appended to candidates.
IsCandidate(twist, revealed_twists, foreshadowed, story_state) ==
    LET current_act    == DictGet(story_state, "current_act", 1)
        revealed_clues == DictGet(story_state, "revealed_clues", {})
        story_flags    == DictGet(story_state, "story_flags", EmptyDict)
        tension_level  == DictGet(story_state, "tension_level", "normal")
        clues_found    == CluesFound(twist, revealed_clues)
    IN  /\ ~(twist.twist_id \in revealed_twists)
        /\ ~(current_act < twist.required_act)
        /\ \A i \in 1..Len(twist.required_flags) :
               Truthy(DictGet(story_flags, twist.required_flags[i], PyNone))
        /\ ~(clues_found < twist.min_clues_for_reveal)
        /\ CalculateReadiness(twist, clues_found, foreshadowed, story_state,
                              tension_level) >= ReadinessThreshold

InsertBeforeEqual(sorted, item) ==
    LET before == SelectSeq(sorted, LAMBDA c : c.readiness > item.readiness)
        after  == SelectSeq(sorted, LAMBDA c : ~(c.readiness > item.readiness))
    IN  before \o <<item>> \o after

\* One step of the stable sort with reverse=True: the item goes after the
\* items of greater or equal readiness.
InsertDescending(sorted, item) ==
    LET before == SelectSeq(sorted, LAMBDA c : c.readiness >= item.readiness)
        after  == SelectSeq(sorted, LAMBDA c : ~(c.readiness >= item.readiness))
    IN  before \o <<item>> \o after

\* candidates.sort(key=lambda x: x[1], reverse=True)
RECURSIVE SortCandidates(_)
SortCandidates(candidates) ==
    IF candidates = << >> THEN << >>
    ELSE InsertDescending(
             SortCandidates(SubSeq(candidates, 1, Len(candidates) - 1)),
             candidates[Len(candidates)])

\* check_revelation_timing(story_state): << >> for None, else <<twist>>.
CheckRevelationTimingResult(twists, revealed_twists, foreshadowed, story_state, noise) ==
    LET positions  == SelectSeq([i \in 1..Len(twists) |-> i],
                          LAMBDA i : IsCandidate(twists[i], revealed_twists,
                                                 foreshadowed, story_state))
        candidates == [j \in 1..Len(positions) |->
                          [twist     |-> twists[positions[j]],
                           readiness |-> ReadinessFloat(
                               ScoreAt(twists, foreshadowed, story_state,
                                       positions[j]),
                               noise[positions[j]])]]
    IN  IF candidates = << >> THEN << >>
        ELSE <<SortCandidates(candidates)[1].twist>>

\* check_red_herring_deployment(story_state): the herrings to deploy, in
\* the order of the registry.
CheckRedHerringDeploymentResult(herrings, deployed_herrings, story_state) ==
    LET revealed_clues == DictGet(story_state, "revealed_clues", {})
        current_act    == DictGet(story_state, "current_act", 1)
    IN  SelectSeq(herrings, LAMBDA herring :
            /\ ~(herring.herring_id \in deployed_herrings)
            /\ \/ /\ herring.deploy_after_clue # ""
                  /\ herring.deploy_after_clue \in revealed_clues
               \/ /\ herring.deploy_in_act # 0
                  /\ current_act >= herring.deploy_in_act)

\* ---- The twists, herrings and story states of the checks
MaxForeshadow == 3
MaxAct == 3

TwistIds   == {"t1", "t2"}
HerringIds == {"h1", "h2"}
ClueIds    == {"c1", "c2"}

\* The story_flags dicts: the flag absent, true, false.
TwistFlagDicts == {EmptyDict, [f |-> PyBool(TRUE)], [f |-> PyBool(FALSE)]}

TensionLevels == {"low", "normal", "high", "critical", "epic"}

\* Every story state of the bounds, and the empty dict (all defaults).
StoryStates ==
    {StoryState(act, clues, flags, tension) :
        act \in 1..MaxAct, clues \in SUBSET ClueIds,
        flags \in TwistFlagDicts, tension \in TensionLevels}
    \cup {EmptyDict}

\* The requirement profiles of a twist: two clues and the default minimum;
\* no clues, a flag and act 2; one clue and act 2; two clues of which one
\* is enough, and a flag.
TwistProfiles ==
    {Twist("", <<"c1", "c2">>, 2, << >>, 1),
     Twist("", << >>, 0, <<"f">>, 2),
     Twist("", <<"c1">>, 1, << >>, 2),
     Twist("", <<"c1", "c2">>, 1, <<"f">>, 1)}

RevealCatalog ==
    {[profile EXCEPT !.twist_id = id] : id \in TwistIds, profile \in TwistProfiles}

\* The registries of at most one twist per id, in both orders.
RevealRegistries ==
    {<< >>} \cup {<<x>> : x \in RevealCatalog}
    \cup {pair \in RevealCatalog \X RevealCatalog :
               pair[1].twist_id # pair[2].twist_id}

\* The twists, herrings and story states of the interleavings.
TwistCatalog ==
    {Twist("t1", <<"c1", "c2">>, 2, << >>, 1),
     Twist("t1", << >>, 0, <<"f">>, 2),
     Twist("t2", <<"c1">>, 1, << >>, 2)}

HerringCatalog ==
    {RedHerring("h1", "c1", 0), RedHerring("h1", "", 2), RedHerring("h2", "c2", 3)}

TwistStories ==
    {EmptyDict,
     StoryState(2, {"c1"}, EmptyDict, "high"),
     StoryState(3, {"c1", "c2"}, [f |-> PyBool(TRUE)], "critical")}

\* ---- generate_foreshadowing
\* A twist with the two further fields that generate_foreshadowing reads.
WithForeshadowing(twist, foreshadowing_elements, priority) ==
    twist @@ [foreshadowing_elements |-> foreshadowing_elements,
              priority |-> priority]

\* element.get("scene_type") == scene_type or not element.get("scene_type"):
\* a missing scene_type (None) and "" are both falsy.
ElementMatches(element, scene_type) ==
    LET element_scene == DictGet(element, "scene_type", "")
    IN  element_scene = scene_type \/ element_scene = ""

\* f"{twist_id}_{element.get('id', 'default')}"
ElementId(twist_id, element) ==
    twist_id \o "_" \o DictGet(element, "id", "default")

\* int(twist.priority * (0.5 + progress * 0.5)) with progress =
\* clues_found / (len(required_clues) or 1); the float product truncates to
\* the same integer as the exact one for priorities -2..12 and up to 8 clues.
HintPriority(twist, revealed_clues) ==
    LET clues_found == CluesFound(twist, revealed_clues)
        total_clues == IF Len(twist.required_clues) = 0
                       THEN 1 ELSE Len(twist.required_clues)
    IN  TruncDiv(twist.priority * (total_clues + clues_found), 2 * total_clues)

\* The hints the inner loop appends for one twist, each with the element_id
\* it was tested under.
HintsOfTwist(twist, foreshadowed, revealed_clues, scene_type) ==
    LET elements == SelectSeq(twist.foreshadowing_elements, LAMBDA element :
                        /\ ElementMatches(element, scene_type)
                        /\ ~(ElementId(twist.twist_id, element)
                                \in DOMAIN foreshadowed))
    IN  [n \in 1..Len(elements) |->
            [hint |-> [twist_id |-> twist.twist_id,
                       hint     |-> DictGet(elements[n], "subtle_hint", ""),
                       priority |-> HintPriority(twist, revealed_clues),
                       npc      |-> DictGet(elements[n], "npc", PyNone),
                       type     |-> "foreshadow"],
             element_id |-> ElementId(twist.twist_id, elements[n])]]

\* The outer loop over self.twists.items(), up to position n.
RECURSIVE HintsUpTo(_, _, _, _, _, _)
HintsUpTo(twists, revealed_twists, foreshadowed, story_state, scene_type, n) ==
    IF n = 0 THEN << >>
    ELSE LET twist          == twists[n]
             current_act    == DictGet(story_state, "current_act", 1)
             revealed_clues == DictGet(story_state, "revealed_clues", {})
             earlier        == HintsUpTo(twists, revealed_twists, foreshadowed,
                                         story_state, scene_type, n - 1)
         IN  IF twist.twist_id \in revealed_twists THEN earlier
             ELSE IF twist.required_act > current_act + 2 THEN earlier
             ELSE earlier \o HintsOfTwist(twist, foreshadowed, revealed_clues,
                                          scene_type)

InsertHintAscending(sorted, item) ==
    LET before == SelectSeq(sorted, LAMBDA h : h.hint.priority <= item.hint.priority)
        after  == SelectSeq(sorted, LAMBDA h : ~(h.hint.priority <= item.hint.priority))
    IN  before \o <<item>> \o after

\* One step of hints.sort(key=lambda x: x["priority"], reverse=True)
InsertHintDescending(sorted, item) ==
    LET before == SelectSeq(sorted, LAMBDA h : h.hint.priority >= item.hint.priority)
        after  == SelectSeq(sorted, LAMBDA h : ~(h.hint.priority >= item.hint.priority))
    IN  before \o <<item>> \o after

RECURSIVE SortHints(_)
SortHints(hints) ==
    IF hints = << >> THEN << >>
    ELSE InsertHintDescending(SortHints(SubSeq(hints, 1, Len(hints) - 1)),
                              hints[Len(hints)])

\* generate_foreshadowing(story_state, scene_type): hints[:3] after the
\* sort, each hint with its element_id.
GenerateForeshadowingResult(twists, revealed_twists, foreshadowed, story_state, scene_type) ==
    LET hints  == HintsUpTo(twists, revealed_twists, foreshadowed, story_state,
                            scene_type, Len(twists))
        sorted == SortHints(hints)
    IN  SubSeq(sorted, 1, Min(3, Len(sorted)))

\* ---- The twists, scene types and story states of the foreshadowing calls
MaxRecorded == 1
MaxRecordedKeys == 2

\* record_foreshadowing(key) keeps the foreshadowed dict within the bounds.
WithinRecordBounds(foreshadowed, key) ==
    /\ DictGet(foreshadowed, key, 0) < MaxRecorded
    /\ Cardinality((DOMAIN foreshadowed) \cup {key}) <= MaxRecordedKeys

SceneTypes == {"combat", "social"}

ElementCombat == [id |-> "e1", scene_type |-> "combat", subtle_hint |-> "shadow",
                  npc |-> PyStr(<<"n">>)]
ElementAny    == [subtle_hint |-> "whisper"]
ElementSocial == [id |-> "e3", scene_type |-> "social", subtle_hint |-> "glance"]

ForeshadowCatalog ==
    {WithForeshadowing(Twist("t1", <<"c1", "c2">>, 2, << >>, 1),
                       <<ElementCombat, ElementAny>>, 5),
     WithForeshadowing(Twist("t2", << >>, 0, <<"f">>, 2),
                       <<ElementAny, ElementSocial, ElementCombat>>, 8),
     WithForeshadowing(Twist("t2", <<"c1">>, 1, << >>, MaxAct + 2),
                       <<ElementCombat>>, 3)}

ForeshadowStories ==
    {StoryState(act, clues, EmptyDict, "normal") :
        act \in 1..MaxAct, clues \in {{}, {"c1"}, {"c1", "c2"}}}
    \cup {EmptyDict}

(***************************************************************************)
(* NPCBrain (services/npc_brain.py)                                        *)
(***************************************************************************)
\* An Optional value: << >> for None, <<v>> for the value v.
None == << >>
Some(v) == <<v>>

\* Settings (config.py)
betrayal_threshold_default == 30
redemption_threshold_default == 80

\* The action types with an entry in one of the tables of the brain.
ReactionTypes ==
    {"friendly", "helped", "gift", "defended", "saved", "trusted", "honest",
     "respected", "hostile", "insulted", "threatened", "attacked", "lied",
     "stole", "betrayed", "neutral", "professional", "distant",
     "confrontation", "seductive", "deceptive"}

\* _get_base_reaction: reactions.get(action_type, (0, 0))
GetBaseReaction(action_type) ==
    CASE action_type = "friendly"      -> <<5, 3>>
      [] action_type = "helped"        -> <<10, 8>>
      [] action_type = "gift"          -> <<8, 5>>
      [] action_type = "defended"      -> <<15, 12>>
      [] action_type = "saved"         -> <<25, 20>>
      [] action_type = "trusted"       -> <<5, 10>>
      [] action_type = "honest"        -> <<3, 8>>
      [] action_type = "respected"     -> <<5, 3>>
      [] action_type = "hostile"       -> <<-5, -5>>
      [] action_type = "insulted"      -> <<-8, -5>>
      [] action_type = "threatened"    -> <<-10, -15>>
      [] action_type = "attacked"      -> <<-20, -25>>
      [] action_type = "lied"          -> <<-5, -15>>
      [] action_type = "stole"         -> <<-15, -20>>
      [] action_type = "betrayed"      -> <<-30, -40>>
      [] action_type = "neutral"       -> <<0, 0>>
      [] action_type = "professional"  -> <<1, 2>>
      [] action_type = "distant"       -> <<-2, -1>>
      [] action_type = "confrontation" -> <<-5, 0>>
      [] action_type = "seductive"     -> <<5, -2>>
      [] action_type = "deceptive"     -> <<0, -10>>
      [] OTHER                         -> <<0, 0>>

\* A table in which loyalty modifies "betrayed", an action type that has a
\* base reaction.
TraitModifiersOnBaseType ==
    [cunning    |-> [deception |-> 3, direct_attack |-> -1],
     loyalty    |-> [betrayed |-> -5, kept_promise |-> 3],
     compassion |-> [helped_innocent |-> 4, cruelty |-> -4],
     pride      |-> [disrespect |-> -4, flattery |-> 2],
     cruelty    |-> [mercy |-> -2, ruthless |-> 2],
     honor      |-> [kept_promise |-> 3, betrayal |-> -4, fair_fight |-> 2],
     greed      |-> [bribe |-> 3, generous |-> -1]]

\* TRAIT_REACTION_MODIFIERS, the modifiers in tenths.
TRAIT_REACTION_MODIFIERS ==
    [cunning    |-> [deception |-> 3, direct_attack |-> -1],
     loyalty    |-> [betrayal |-> -5, kept_promise |-> 3],
     compassion |-> [helped_innocent |-> 4, cruelty |-> -4],
     pride      |-> [disrespect |-> -4, flattery |-> 2],
     cruelty    |-> [mercy |-> -2, ruthless |-> 2],
     honor      |-> [kept_promise |-> 3, betrayal |-> -4, fair_fight |-> 2],
     greed      |-> [bribe |-> 3, generous |-> -1]]

\* NPCPersonality with its defaults, and with some traits set.
DefaultPersonality ==
    [cunning |-> 50, loyalty |-> 50, patience |-> 50, pride |-> 50,
     cruelty |-> 50, compassion |-> 50, courage |-> 50, greed |-> 50,
     honor |-> 50, wisdom |-> 50]

\* _apply_personality_modifiers: the relation modifier in thousandths (a
\* modifier in tenths times a trait value in hundredths); the trust
\* modifier is 0.8 times it.
RECURSIVE SumModifiers(_, _, _)
SumModifiers(personality, action_type, traits) ==
    IF traits = {} THEN 0
    ELSE LET trait == CHOOSE t \in traits : TRUE
             rest  == SumModifiers(personality, action_type, traits \ {trait})
         IN  IF /\ trait \in DOMAIN TRAIT_REACTION_MODIFIERS
                /\ action_type \in DOMAIN TRAIT_REACTION_MODIFIERS[trait]
             THEN TRAIT_REACTION_MODIFIERS[trait][action_type] * personality[trait]
                  + rest
             ELSE rest

ApplyPersonalityModifiers(personality, action_type) ==
    SumModifiers(personality, action_type, DOMAIN personality)

\* int(base_relation_change * (1 + relation_modifier)) and
\* int(base_trust_change * (1 + trust_modifier)).  No action type has both
\* a base reaction other than 0 and a trait modifier, so the float product
\* is 0 or the base itself, as the exact one.
FinalRelationChange(base, modifier) == TruncDiv(base * (1000 + modifier), 1000)
FinalTrustChange(base, modifier) == TruncDiv(base * (10000 + 8 * modifier), 10000)

\* EMOTIONAL_TRANSITIONS
EMOTIONAL_TRANSITIONS ==
    [neutral    |-> [positive_action |-> "friendly", negative_action |-> "suspicious",
                     threat |-> "fearful", kindness |-> "grateful"],
     friendly   |-> [positive_action |-> "friendly", negative_action |-> "suspicious",
                     betrayal |-> "hostile", continued_kindness |-> "grateful"],
     suspicious |-> [positive_action |-> "neutral", continued_negative |-> "hostile",
                     proof_of_innocence |-> "neutral"],
     hostile    |-> [positive_action |-> "suspicious", major_kindness |-> "neutral",
                     continued_aggression |-> "hostile"],
     grateful   |-> [continued_kindness |-> "grateful", negative_action |-> "sad",
                     betrayal |-> "hostile"],
     fearful    |-> [reassurance |-> "neutral", continued_threat |-> "desperate",
                     protection |-> "grateful"]]

\* A mapping in which a friendly action is the trigger "reassurance".
ActionToTriggerReassuring ==
    [friendly |-> "reassurance", helped |-> "positive_action",
     gift |-> "positive_action", defended |-> "major_kindness",
     saved |-> "major_kindness", trusted |-> "positive_action",
     hostile |-> "negative_action", insulted |-> "negative_action",
     threatened |-> "threat", attacked |-> "continued_aggression",
     lied |-> "negative_action", betrayed |-> "betrayal"]

\* action_to_trigger of _calculate_emotional_transition
ActionToTrigger ==
    [friendly |-> "positive_action", helped |-> "positive_action",
     gift |-> "positive_action", defended |-> "major_kindness",
     saved |-> "major_kindness", trusted |-> "positive_action",
     hostile |-> "negative_action", insulted |-> "negative_action",
     threatened |-> "threat", attacked |-> "continued_aggression",
     lied |-> "negative_action", betrayed |-> "betrayal"]

\* The state the transition table gives for a trigger, else the current one.
LookUpTransition(current_state, trigger) ==
    IF /\ current_state \in DOMAIN EMOTIONAL_TRANSITIONS
       /\ trigger \in DOMAIN EMOTIONAL_TRANSITIONS[current_state]
    THEN EMOTIONAL_TRANSITIONS[current_state][trigger]
    ELSE current_state

CalculateEmotionalTransitionSignOnly(current_state, action_type, relation_change) ==
    IF relation_change > 5 THEN LookUpTransition(current_state, "positive_action")
    ELSE IF relation_change < -5
    THEN LookUpTransition(current_state, "negative_action")
    ELSE current_state

\* _calculate_emotional_transition
CalculateEmotionalTransition(current_state, action_type, relation_change) ==
    IF action_type \in DOMAIN ActionToTrigger
    THEN LookUpTransition(current_state, ActionToTrigger[action_type])
    ELSE IF relation_change > 5
    THEN LookUpTransition(current_state, "positive_action")
    ELSE IF relation_change < -5
    THEN LookUpTransition(current_state, "negative_action")
    ELSE current_state

\* The NPCState fields the brain's checks read.
NPCState(apparent_role, true_role, personality, secrets, betrayal_threshold, redemption_threshold) ==
    [apparent_role |-> apparent_role, true_role |-> true_role,
     personality |-> personality, secrets |-> secrets,
     betrayal_threshold |-> betrayal_threshold,
     redemption_threshold |-> redemption_threshold]

\* The NPCRelationship fields the brain and the handler read.
NPCRelationship(relationship_score, trust_level, known_secrets, interactions_count, emotional_state, betrayal_triggered, redemption_triggered) ==
    [relationship_score |-> relationship_score, trust_level |-> trust_level,
     known_secrets |-> known_secrets, interactions_count |-> interactions_count,
     emotional_state |-> emotional_state,
     betrayal_triggered |-> betrayal_triggered,
     redemption_triggered |-> redemption_triggered]

\* threshold = configured or default: None and 0 are both falsy.
ThresholdOr(configured, default) ==
    IF configured = None THEN default
    ELSE IF configured[1] = 0 THEN default
    ELSE configured[1]

\* not (not npc.true_role or npc.true_role == npc.apparent_role)
HasSecretRole(npc) ==
    /\ npc.true_role # None
    /\ npc.true_role[1] # ""
    /\ npc.true_role[1] # npc.apparent_role

\* _check_secret_reveal: None or the first secret the relationship does
\* not know.
CheckSecretReveal(npc, relationship, action_type, relation_change) ==
    LET unknown   == SelectSeq(npc.secrets, LAMBDA secret :
                         secret \notin Range(relationship.known_secrets))
        new_trust == relationship.trust_level + relation_change
    IN  IF npc.secrets = << >> THEN None
        ELSE IF unknown = << >> THEN None
        ELSE IF new_trust >= 80 /\ action_type \in {"saved", "defended", "trusted"}
        THEN Some(unknown[1])
        ELSE IF /\ new_trust >= 70 /\ relationship.interactions_count >= 5
                /\ action_type \in {"friendly", "helped", "honest"}
        THEN Some(unknown[1])
        ELSE None

\* _check_betrayal_trigger
CheckBetrayalTrigger(npc, relationship, relation_change) ==
    IF relationship.betrayal_triggered THEN FALSE
    ELSE IF ~HasSecretRole(npc) THEN FALSE
    ELSE LET threshold == ThresholdOr(npc.betrayal_threshold,
                                      betrayal_threshold_default)
             new_relationship == relationship.relationship_score + relation_change
         IN  new_relationship < threshold

\* _check_redemption_trigger
CheckRedemptionTrigger(npc, relationship, relation_change) ==
    IF relationship.redemption_triggered THEN FALSE
    ELSE IF ~HasSecretRole(npc) THEN FALSE
    ELSE LET threshold == ThresholdOr(npc.redemption_threshold,
                                      redemption_threshold_default)
             new_relationship == relationship.relationship_score + relation_change
         IN  new_relationship >= threshold

\* calculate_reaction: the NPCReaction fields that carry state.
CalculateReaction(npc, relationship, action_type) ==
    LET base     == GetBaseReaction(action_type)
        modifier == ApplyPersonalityModifiers(npc.personality, action_type)
        final_relation_change == FinalRelationChange(base[1], modifier)
        final_trust_change    == FinalTrustChange(base[2], modifier)
    IN  [emotional_response  |-> CalculateEmotionalTransition(
                                     relationship.emotional_state, action_type,
                                     final_relation_change),
         relationship_change |-> final_relation_change,
         trust_change        |-> final_trust_change,
         reveals_secret      |-> CheckSecretReveal(npc, relationship, action_type,
                                                   final_relation_change),
         triggers_betrayal   |-> CheckBetrayalTrigger(npc, relationship,
                                                      final_relation_change),
         triggers_redemption |-> CheckRedemptionTrigger(npc, relationship,
                                                        final_relation_change)]

(***************************************************************************)
(* The /npc-reaction handler (main.py), its store and its cache            *)
(***************************************************************************)
\* Settings.default_relationship (config.py)
default_relationship == 50

\* value or None, as the handler passes the two trigger flags.
TrueOrNone(flag) == IF flag THEN Some(TRUE) ELSE None

\* db_client.upsert_room_npc_relationship on an existing row, with
\* increment_interactions=True: ON CONFLICT DO UPDATE SET of the arguments
\* that are not None (add_secret: that are truthy), as they are given.
UpsertRoomNpcRelationship(row, relationship_score, trust_level, emotional_state, add_secret, betrayal_triggered, redemption_triggered) ==
    [relationship_score |-> relationship_score,
     trust_level        |-> trust_level,
     emotional_state    |-> emotional_state,
     known_secrets      |-> IF add_secret # None /\ add_secret[1] # ""
                            THEN Append(row.known_secrets, add_secret[1])
                            ELSE row.known_secrets,
     interactions_count |-> row.interactions_count + 1,
     betrayal_triggered |-> IF betrayal_triggered # None
                            THEN betrayal_triggered[1]
                            ELSE row.betrayal_triggered,
     redemption_triggered |-> IF redemption_triggered # None
                              THEN redemption_triggered[1]
                              ELSE row.redemption_triggered]

\* redis_client.update_npc_memory: (memory or {}).update(updates)
UpdateNpcMemory(memory, updates) ==
    IF memory = None THEN Some(updates) ELSE Some(updates @@ memory[1])

\* memory["interactions"][-20:]
KeepLast(list, n) ==
    IF Len(list) <= n THEN list ELSE SubSeq(list, Len(list) - n + 1, Len(list))

\* redis_client.add_npc_interaction; an interaction is kept as its
\* action_type.
AddNpcInteraction(memory, action_type) ==
    LET known == IF memory = None
                 THEN [interactions |-> << >>,
                       relationship |-> default_relationship,
                       trust |-> 50, emotional_state |-> "neutral"]
                 ELSE memory[1]
        list  == IF "interactions" \in DOMAIN known THEN known.interactions
                 ELSE << >>
    IN  Some([interactions |-> KeepLast(Append(list, action_type), 20)] @@ known)

(***************************************************************************)
(* Room progress: db_client.update_room_progress and the cached story      *)
(* state (redis_client.update_story_state)                                 *)
(***************************************************************************)
StoredKarmaAsGiven(karma) == karma

\* values.append(max(0, min(100, karma)))
StoredKarma(karma) == Clamp100(karma)

\* db_client.update_room_progress on an existing row, for the arguments the
\* three handlers pass: an argument that is None (add_flags, add_decision,
\* add_clues: that is falsy) leaves its column alone.
UpdateRoomProgress(row, current_act, current_chapter, current_scene, karma, add_flags, add_decision, add_clues, clear_pending_decision) ==
    [current_act    |-> IF current_act # None THEN current_act[1]
                        ELSE row.current_act,
     current_chapter |-> IF current_chapter # None THEN current_chapter[1]
                         ELSE row.current_chapter,
     current_scene  |-> IF current_scene # None THEN current_scene[1]
                        ELSE row.current_scene,
     karma          |-> IF karma # None THEN StoredKarma(karma[1]) ELSE row.karma,
     story_flags    |-> IF add_flags # None THEN row.story_flags \cup add_flags[1]
                        ELSE row.story_flags,
     decisions_made |-> IF add_decision # None
                        THEN DictSet(row.decisions_made, add_decision[1][1],
                                     add_decision[1][2])
                        ELSE row.decisions_made,
     revealed_clues |-> IF add_clues # None THEN row.revealed_clues \o add_clues[1]
                        ELSE row.revealed_clues,
     pending_decision_code |-> IF clear_pending_decision THEN None
                               ELSE row.pending_decision_code]

\* redis_client.update_story_state: (state or {}).update(updates)
UpdateStoryState(state, updates) ==
    IF state = None THEN Some(updates) ELSE Some(updates @@ state[1])

\* The redis_updates of update_progress: a key for each position that is
\* truthy and for a karma that is not None.
RedisUpdates(new_act, new_chapter, new_scene, new_karma) ==
    LET given == [current_act |-> new_act, current_chapter |-> new_chapter,
                  current_scene |-> new_scene, karma |-> new_karma]
        keys  == {key \in {"current_act", "current_chapter", "current_scene"} :
                      given[key] # None /\ given[key] # Some(0)}
                 \cup (IF new_karma # None THEN {"karma"} ELSE {})
    IN  [key \in keys |-> given[key][1]]

(***************************************************************************)
(* NarrativeAnalyzer (services/narrative_analyzer.py)                      *)
(***************************************************************************)
\* A message is the sequence of its words; a phrase is a sequence of words
\* and occurs in a message between word boundaries (\b).
Words(words) == {<<word>> : word \in words}

\* A pattern \b(first)\b, or \b(first)\b.*\b(then)\b, or ^".*"$.
Alternatives(first) == [kind |-> "alternatives", first |-> first, then |-> {}]
Followed(first, then) == [kind |-> "followed", first |-> first, then |-> then]
QuotedSpeech == [kind |-> "quoted", first |-> {}, then |-> {}]

\* The phrases of up to three words that start at word i of a message.
PhrasesAt(message, i) ==
    {SubSeq(message, i, i + length - 1) :
        length \in 1..Min(3, Len(message) - i + 1)}

\* pattern.search(message).  No word of a message holds a quotation mark.
Search(pattern, message) ==
    CASE pattern.kind = "alternatives" ->
             \E i \in 1..Len(message) :
                 PhrasesAt(message, i) \cap pattern.first # {}
      [] pattern.kind = "followed" ->
             \E i \in 1..Len(message) :
                 \E first \in PhrasesAt(message, i) \cap pattern.first :
                     \E j \in (i + Len(first))..Len(message) :
                         PhrasesAt(message, j) \cap pattern.then # {}
      [] OTHER -> FALSE

\* ActionType, in the order of the enumeration (models/action.py)
ActionType ==
    <<"dialogue", "exploration", "combat", "stealth", "social",
      "investigation", "item_use", "skill_check", "decision", "rest",
      "travel", "magic", "neutral">>

\* ACTION_PATTERNS, in the order of the dict
ACTION_PATTERNS ==
    << [action_type |-> "dialogue", patterns |-> <<
           Alternatives(Words({"hablo", "pregunto", "digo", "respondo",
                               "converso", "menciono", "susurro", "grito"})
                        \cup {<<"le", "digo">>}),
           Alternatives(Words({"hablar", "preguntar", "decir", "responder",
                               "conversar", "mencionar"})),
           QuotedSpeech >>],
       [action_type |-> "combat", patterns |-> <<
           Alternatives(Words({"ataco", "golpeo", "disparo", "lanzo", "peleo",
                               "lucho", "defiendo"})),
           Alternatives(Words({"atacar", "golpear", "disparar", "lanzar",
                               "pelear", "luchar", "defender"})),
           Alternatives(Words({"espada", "arco", "hacha", "daga"})
                        \cup {<<"magia", "ofensiva">>}) >>],
       [action_type |-> "stealth", patterns |-> <<
           Alternatives(Words({"sigilosamente"})
                        \cup {<<"me", "escondo">>, <<"me", "oculto">>,
                              <<"en", "las", "sombras">>,
                              <<"sin", "ser", "visto">>}),
           Alternatives(Words({"esconder", "ocultar", "sigilo", "sombras",
                               "infiltrar"})),
           Alternatives(Words({"robo", "hurto", "pickpocket"})) >>],
       [action_type |-> "exploration", patterns |-> <<
           Alternatives(Words({"exploro", "examino", "inspecciono", "busco",
                               "miro", "observo", "registro"})),
           Alternatives(Words({"explorar", "examinar", "inspeccionar",
                               "buscar", "mirar", "observar"})),
           Alternatives(Words({"habitación", "cuarto", "lugar", "zona",
                               "área"})) >>],
       [action_type |-> "investigation", patterns |-> <<
           Alternatives(Words({"investigo", "analizo", "estudio", "descifro",
                               "leo"})),
           Alternatives(Words({"investigar", "analizar", "estudiar",
                               "descifrar", "leer"})),
           Alternatives(Words({"pista", "evidencia", "prueba", "documento",
                               "carta"})) >>],
       [action_type |-> "social", patterns |-> <<
           Alternatives(Words({"persuado", "intimido", "engaño", "seduzco",
                               "negocio", "convenzo"})),
           Alternatives(Words({"persuadir", "intimidar", "engañar", "seducir",
                               "negociar", "convencer"})) >>],
       [action_type |-> "magic", patterns |-> <<
           Alternatives(Words({"conjuro", "invoco", "canalizo"})
                        \cup {<<"lanzo", "un", "hechizo">>, <<"uso", "magia">>}),
           Alternatives(Words({"hechizo", "magia", "conjuro", "invocación",
                               "ritual"})) >>],
       [action_type |-> "item_use", patterns |-> <<
           Followed(Words({"uso", "utilizo", "aplico", "bebo", "como", "equipo"}),
                    Words({"poción", "objeto", "item", "arma", "armadura"})),
           Followed(Words({"saco", "tomo", "agarro", "cojo"}),
                    Words({"del"}) \cup {<<"de", "mi">>, <<"de", "la">>}) >>],
       [action_type |-> "rest", patterns |-> <<
           Alternatives(Words({"descanso", "duermo", "espero", "acampo"})
                        \cup {<<"me", "siento">>}),
           Alternatives(Words({"descansar", "dormir", "esperar", "sentarse",
                               "acampar"})) >>],
       [action_type |-> "travel", patterns |-> <<
           Alternatives(Words({"voy", "camino", "viajo", "corro", "huyo"})
                        \cup {<<"me", "dirijo">>}),
           Alternatives(Words({"ir", "caminar", "viajar", "dirigirse", "correr",
                               "huir"})),
           Alternatives(Words({"hacia", "hasta", "al", "norte", "sur", "este",
                               "oeste"})
                        \cup {<<"a", "la">>}) >>] >>

\* matches = sum(1 for p in patterns if p.search(message)), per entry
MatchCounts(table, message) ==
    [n \in 1..Len(table) |->
        Cardinality({k \in 1..Len(table[n].patterns) :
                        Search(table[n].patterns[k], message)})]

\* scores[action_type] = matches / len(patterns), compared as fractions:
\* the quotients of equal fractions are equal floats, those of different
\* fractions with denominators 2 and 3 different floats.
ScoreAbove(table, counts, n, m) ==
    counts[n] * Len(table[m].patterns) > counts[m] * Len(table[n].patterns)

\* The keys of scores: the entries with a match, in the order of the table.
Scored(counts) == {n \in DOMAIN counts : counts[n] > 0}

BestTypeLast(table, counts) ==
    CHOOSE n \in Scored(counts) :
        \A m \in Scored(counts) :
            /\ m < n => ~ScoreAbove(table, counts, m, n)
            /\ m > n => ScoreAbove(table, counts, n, m)

\* max(scores, key=scores.get): the first key, in the order of the dict,
\* whose score no other key exceeds.
BestType(table, counts) ==
    CHOOSE n \in Scored(counts) :
        \A m \in Scored(counts) :
            /\ m < n => ScoreAbove(table, counts, n, m)
            /\ m > n => ~ScoreAbove(table, counts, m, n)

\* _classify_action_type: the type and the confidence
\* min(score * 2, 1.0) in sixths; NEUTRAL and 0.5 when nothing matches.
ClassifyActionType(message) ==
    LET counts == MatchCounts(ACTION_PATTERNS, message)
    IN  IF Scored(counts) = {}
        THEN [action_type |-> "neutral", confidence |-> 3]
        ELSE LET n == BestType(ACTION_PATTERNS, counts)
             IN  [action_type |-> ACTION_PATTERNS[n].action_type,
                  confidence  |->
                      Min((12 * counts[n]) \div Len(ACTION_PATTERNS[n].patterns),
                          6)]

\* NPC_INTERACTION_PATTERNS, in the order of the dict
NPC_INTERACTION_PATTERNS ==
    << [interaction_type |-> "friendly", patterns |-> <<
           Alternatives(Words({"amablemente", "cortésmente", "sonrío"})
                        \cup {<<"con", "respeto">>}) >>],
       [interaction_type |-> "hostile", patterns |-> <<
           Alternatives(Words({"amenaz", "intimi", "agresi", "hostil"})
                        \cup {<<"con", "desprecio">>}) >>],
       [interaction_type |-> "deceptive", patterns |-> <<
           Alternatives(Words({"miento", "engaño", "disimulo"})
                        \cup {<<"oculto", "la", "verdad">>}) >>],
       [interaction_type |-> "confrontation", patterns |-> <<
           Alternatives(Words({"confronto", "acuso", "encaro", "exijo"})) >>],
       [interaction_type |-> "seductive", patterns |-> <<
           Alternatives(Words({"seduz", "coquete", "encant", "atraigo"})) >>],
       [interaction_type |-> "professional", patterns |-> <<
           Alternatives(Words({"formalmente", "profesionalmente",
                               "negocios"})) >>] >>

\* npc_code.lower() for the codes of the model.
CodeLower(npc_code) == IF npc_code = "Lira" THEN "lira" ELSE npc_code

\* npc_code.lower() in message_lower: no word of a message holds a code
\* as a proper part.  The four patterns tried next hold the code, so they
\* match no message the substring test has let through.
CodeInMessage(npc_code, message) ==
    \E i \in 1..Len(message) : message[i] = CodeLower(npc_code)

\* _detect_target_npc: None or the first code of active_npcs in the message.
DetectTargetNpc(message, active_npcs) ==
    LET found == {n \in 1..Len(active_npcs) :
                      CodeInMessage(active_npcs[n], message)}
    IN  IF found = {} THEN None
        ELSE Some(active_npcs[CHOOSE n \in found : \A m \in found : n <= m])

\* The loop of _detect_npc_interactions over the first count entries of
\* the table: an entry with a matching pattern assigns
\* interactions[target], and the loop goes on to the next entry.
RECURSIVE InteractionsUpTo(_, _, _)
InteractionsUpTo(count, target, message) ==
    IF count = 0 THEN EmptyDict
    ELSE LET before == InteractionsUpTo(count - 1, target, message)
             entry  == NPC_INTERACTION_PATTERNS[count]
         IN  IF \E k \in 1..Len(entry.patterns) :
                    Search(entry.patterns[k], message)
             THEN DictSet(before, target, entry.interaction_type)
             ELSE before

\* _detect_npc_interactions
DetectNpcInteractions(message, active_npcs) ==
    LET target == DetectTargetNpc(message, active_npcs)
    IN  IF target = None \/ target = Some("") THEN EmptyDict
        ELSE LET interactions ==
                     InteractionsUpTo(Len(NPC_INTERACTION_PATTERNS),
                                      target[1], message)
             IN  IF target[1] \notin DOMAIN interactions
                 THEN DictSet(interactions, target[1], "neutral")
                 ELSE interactions

(***************************************************************************)
(* Initial values of each service's variables                              *)
(***************************************************************************)
IdleKarma ==
    /\ k_pc = "idle" /\ k_current = 0 /\ k_change = 0
    /\ k_new = 0 /\ k_level_changed = FALSE

IdleFaction ==
    /\ f_pc = "idle" /\ f_standings = EmptyDict /\ f_faction = "corona"
    /\ f_change = 0 /\ f_new = EmptyDict /\ f_events = << >>

IdleCond ==
    /\ c_pc = "idle" /\ c_condition = << >> /\ c_decisions = EmptyDict
    /\ c_flags = EmptyDict /\ c_result = FALSE

\* The fields of a new StoryGraph, no query made.
IdleGraph ==
    /\ g_pc = "build" /\ g_nodes = EmptyDict /\ g_edges = EmptyDict
    /\ g_endings = {} /\ g_decision_points = {}
    /\ q_node = "a" /\ q_decisions = EmptyDict /\ q_flags = EmptyDict
    /\ q_weights = EmptyDict /\ q_result = EmptyDict /\ q_raised = FALSE

\* The fields of a new TwistEngine, no call made.
IdleTwist ==
    /\ t_twists = << >> /\ t_red_herrings = << >>
    /\ t_revealed_twists = {} /\ t_deployed_herrings = {}
    /\ t_foreshadowed = EmptyDict
    /\ t_op = "new" /\ t_story = EmptyDict /\ t_noise = << >>
    /\ t_returned = << >>
    /\ h_marked_revealed = {} /\ h_marked_deployed = {}
    /\ r_pc = "idle"

\* No generate_foreshadowing call made.
IdleForeshadow == t_scene_type = "" /\ t_emitted = << >> /\ h_used = {}

IdleEmotion ==
    /\ e_pc = "" /\ e_current_state = "" /\ e_action_type = ""
    /\ e_relation_change = 0 /\ e_new_state = ""

\* No call made yet: the defaults of the models and no cached memory.
NoReaction ==
    [emotional_response |-> "", relationship_change |-> 0, trust_change |-> 0,
     reveals_secret |-> None, triggers_betrayal |-> FALSE,
     triggers_redemption |-> FALSE]

IdleNpc ==
    /\ n_pc = "" /\ n_action_type = "" /\ n_reaction = NoReaction
    /\ n_npc = NPCState("", None, DefaultPersonality, << >>, None, None)
    /\ n_relationship = NPCRelationship(50, 50, << >>, 0, "neutral", FALSE, FALSE)
    /\ n_memory = None /\ h_betrayals = 0 /\ h_redemptions = 0

\* A room whose progress row has its defaults and nothing cached.
RoomProgress(current_act, current_chapter, current_scene, karma, story_flags, decisions_made, revealed_clues, pending_decision_code) ==
    [current_act |-> current_act, current_chapter |-> current_chapter,
     current_scene |-> current_scene, karma |-> karma,
     story_flags |-> story_flags, decisions_made |-> decisions_made,
     revealed_clues |-> revealed_clues,
     pending_decision_code |-> pending_decision_code]

IdleProgress ==
    /\ p_op = "" /\ p_karma_change = 0
    /\ p_progress = RoomProgress(1, 1, 1, 50, {}, EmptyDict, << >>, None)
    /\ p_story_state = None /\ p_pending = None /\ p_ai_context = FALSE

IdleAnalyzer ==
    /\ a_pc = "" /\ a_message = << >> /\ a_active_npcs = << >>
    /\ a_action_type = "" /\ a_confidence = 0 /\ a_interactions = EmptyDict

\* The fields of a new StoryGraph, no get_decision_points_ahead call made.
IdleAhead ==
    /\ d_pc = "build" /\ d_nodes = {} /\ d_succ = EmptyDict
    /\ d_decision_points = {} /\ d_current = "" /\ d_max_depth = 0
    /\ d_result = << >> /\ d_raised = FALSE

\* No build_from_campaign_data call made.
IdleCampaign == b_campaign = << >>

\* No request under way: a room with the karma of a new progress row and
\* nothing cached.
IdleRace ==
    /\ x_kind = << >> /\ x_change = << >> /\ x_pc = << >> /\ x_progress = << >>
    /\ x_karma = 50 /\ x_cached = None /\ h_karma = 50

\* The room has its progress row.
IdleRoom == y_exists = TRUE

IdleNew == IdleAhead /\ IdleCampaign /\ IdleRace /\ IdleRoom

IdleLater == IdleEmotion /\ IdleNpc /\ IdleProgress /\ IdleAnalyzer /\ IdleNew

IdleEngine ==
    /\ IdleKarma /\ IdleFaction /\ IdleCond /\ IdleGraph /\ IdleTwist
    /\ IdleForeshadow

IdleButEmotion  == IdleEngine /\ IdleNpc /\ IdleProgress /\ IdleAnalyzer /\ IdleNew
IdleButNpc      == IdleEngine /\ IdleEmotion /\ IdleProgress /\ IdleAnalyzer /\ IdleNew
IdleButProgress == IdleEngine /\ IdleEmotion /\ IdleAnalyzer /\ IdleNew
IdleButAnalyzer == IdleEngine /\ IdleEmotion /\ IdleNpc /\ IdleProgress /\ IdleNew
IdleOld ==
    /\ IdleEngine /\ IdleEmotion /\ IdleNpc /\ IdleProgress /\ IdleAnalyzer
IdleButAhead == IdleOld /\ IdleCampaign /\ IdleRace /\ IdleRoom
IdleButCampaign == IdleOld /\ IdleAhead /\ IdleRace /\ IdleRoom
IdleButRace == IdleOld /\ IdleAhead /\ IdleCampaign /\ IdleRoom
IdleButRoom ==
    /\ IdleEngine /\ IdleEmotion /\ IdleNpc /\ IdleAnalyzer /\ IdleAhead
    /\ IdleCampaign /\ IdleRace

IdleRest == IdleForeshadow /\ IdleLater

(***************************************************************************)
(* SpecKarma: apply_karma_change on every input of the bounds              *)
(***************************************************************************)
InitKarma ==
    /\ k_pc = "call"
    /\ k_current \in KarmaInputs
    /\ k_change \in ChangeInputs
    /\ k_new = 0
    /\ k_level_changed = FALSE
    /\ IdleFaction /\ IdleCond /\ IdleGraph /\ IdleTwist /\ IdleRest

ApplyKarmaChange ==
    /\ k_pc = "call"
    /\ LET r == ApplyKarmaChangeResult(k_current, k_change)
       IN  /\ k_new' = r.new_karma
           /\ k_level_changed' = r.level_changed
    /\ k_pc' = "ret"
    /\ UNCHANGED <<k_current, k_change, varsFaction, varsCond, varsGraph, varsTwist, varsRest>>

NextKarma == ApplyKarmaChange

SpecKarma == InitKarma /\ [][NextKarma]_vars

(***************************************************************************)
(* SpecFaction: update_faction_standing on the bounded standings maps      *)
(***************************************************************************)
InitFaction ==
    /\ f_pc = "call"
    /\ f_faction \in Factions
    /\ f_standings \in StandingsOver(f_faction, Factions)
    /\ f_change \in FactionChanges
    /\ f_new = EmptyDict
    /\ f_events = << >>
    /\ IdleKarma /\ IdleCond /\ IdleGraph /\ IdleTwist /\ IdleRest

UpdateFactionStanding ==
    /\ f_pc = "call"
    /\ LET r == UpdateFactionStandingResult(f_standings, f_faction, f_change)
       IN  /\ f_new' = r.new_standings
           /\ f_events' = r.events
    /\ f_pc' = "ret"
    /\ UNCHANGED <<f_standings, f_faction, f_change, varsKarma, varsCond, varsGraph, varsTwist, varsRest>>

NextFaction == UpdateFactionStanding

SpecFaction == InitFaction /\ [][NextFaction]_vars

(***************************************************************************)
(* SpecCond: _check_condition on the bounded conditions, flags, decisions  *)
(***************************************************************************)
InitCond ==
    /\ c_pc = "call"
    /\ c_condition \in CondStrings
    /\ c_decisions \in DecisionDicts
    /\ c_flags \in FlagDicts
    /\ c_result = FALSE
    /\ IdleKarma /\ IdleFaction /\ IdleGraph /\ IdleTwist /\ IdleRest

CheckConditionCall ==
    /\ c_pc = "call"
    /\ c_result' = CheckCondition(c_condition, c_decisions, c_flags)
    /\ c_pc' = "ret"
    /\ UNCHANGED <<c_condition, c_decisions, c_flags,
                   varsKarma, varsFaction, varsGraph, varsTwist, varsRest>>

NextCond == CheckConditionCall

SpecCond == InitCond /\ [][NextCond]_vars

(***************************************************************************)
(* SpecGraph: a new StoryGraph, add_node and add_edge calls, then one      *)
(* calculate_ending_probabilities call                                     *)
(***************************************************************************)
InitGraph == IdleGraph /\ IdleKarma /\ IdleFaction /\ IdleCond /\ IdleTwist /\ IdleRest

\* add_node(StoryNode(node_id, node_type)), the nodes in NodeOrder.
AddNode ==
    /\ g_pc = "build"
    /\ \E i \in DOMAIN NodeOrder :
         LET node_id   == NodeOrder[i]
             node_type == NodeTypeOf[node_id]
             added(n)  == n \in DOMAIN g_nodes /\ g_nodes[n] # ""
         IN  /\ ~added(node_id)
             /\ \A j \in 1..(i - 1) : added(NodeOrder[j])
             /\ g_nodes' = DictSet(g_nodes, node_id, node_type)
             /\ g_endings' = IF node_type = "ending"
                             THEN g_endings \cup {node_id} ELSE g_endings
             /\ g_decision_points' =
                    IF node_type # "ending" /\ node_type = "decision"
                    THEN g_decision_points \cup {node_id} ELSE g_decision_points
    /\ UNCHANGED <<g_pc, g_edges, q_node, q_decisions, q_flags, q_weights,
                   q_result, q_raised, varsKarma, varsFaction, varsCond, varsTwist, varsRest>>

\* graph.add_edge(u, v, ...): adds the end nodes it misses, without
\* attributes, and sets the attributes of the edge, new or not.
GraphAddEdge(nodes, u, v) ==
    LET with_u == IF u \in DOMAIN nodes THEN nodes ELSE DictSet(nodes, u, "")
    IN  IF v \in DOMAIN with_u THEN with_u ELSE DictSet(with_u, v, "")

\* add_edge(StoryEdge(from_node, to_node, condition, probability, label))
AddEdge ==
    /\ g_pc = "build"
    /\ \E pair \in EdgePairs, attrs \in EdgeAttrs :
         /\ Cardinality((DOMAIN g_edges) \cup {pair}) <= MaxEdges
         /\ g_edges' = DictSet(g_edges, pair, attrs)
         /\ g_nodes' = GraphAddEdge(g_nodes, pair[1], pair[2])
    /\ UNCHANGED <<g_pc, g_endings, g_decision_points, q_node, q_decisions,
                   q_flags, q_weights, q_result, q_raised,
                   varsKarma, varsFaction, varsCond, varsTwist, varsRest>>

\* calculate_ending_probabilities(current_node, decisions_made, story_flags)
CalculateEndingProbabilities ==
    /\ g_pc = "build"
    /\ \E current_node \in NodeIds, st \in QueryStates, selfPath \in BOOLEAN :
         /\ q_node' = current_node
         /\ q_decisions' = st.decisions
         /\ q_flags' = st.flags
         /\ IF g_endings # {} /\ current_node \notin DOMAIN g_nodes
            THEN \* all_simple_paths raises NodeNotFound, which is not caught
                 /\ q_raised' = TRUE
                 /\ q_weights' = EmptyDict
                 /\ q_result' = EmptyDict
            ELSE LET paths_by_ending ==
                         FindPathsToEndings(g_edges, g_endings, current_node, selfPath)
                     weights ==
                         [e \in DOMAIN paths_by_ending |->
                             EndingWeight(g_edges, paths_by_ending[e],
                                          st.decisions, st.flags)]
                 IN  /\ q_raised' = FALSE
                     /\ q_weights' = weights
                     /\ \E ups \in SUBSET RoundingTies(weights) :
                            q_result' = IF DOMAIN paths_by_ending = {}
                                        THEN EmptyDict
                                        ELSE Normalize(weights, ups)
    /\ g_pc' = "ret"
    /\ UNCHANGED <<g_nodes, g_edges, g_endings, g_decision_points,
                   varsKarma, varsFaction, varsCond, varsTwist, varsRest>>

NextGraph == AddNode \/ AddEdge \/ CalculateEndingProbabilities

SpecGraph == InitGraph /\ [][NextGraph]_vars

(***************************************************************************)
(* SpecTwist: every interleaving of the calls on one TwistEngine           *)
(***************************************************************************)
InitTwist ==
    IdleTwist /\ IdleKarma /\ IdleFaction /\ IdleCond /\ IdleGraph /\ IdleRest

\* register_twist(twist)
RegisterTwist ==
    /\ r_pc = "idle"
    /\ \E twist \in TwistCatalog :
         t_twists' = RegisterTwistResult(t_twists, twist)
    /\ t_op' = "register_twist"
    /\ t_story' = EmptyDict /\ t_noise' = << >> /\ t_returned' = << >>
    /\ UNCHANGED <<t_red_herrings, t_revealed_twists, t_deployed_herrings,
                   t_foreshadowed, h_marked_revealed, h_marked_deployed, r_pc,
                   varsKarma, varsFaction, varsCond, varsGraph, varsRest>>

\* register_red_herring(herring)
RegisterRedHerring ==
    /\ r_pc = "idle"
    /\ \E herring \in HerringCatalog :
         t_red_herrings' = RegisterRedHerringResult(t_red_herrings, herring)
    /\ t_op' = "register_red_herring"
    /\ t_story' = EmptyDict /\ t_noise' = << >> /\ t_returned' = << >>
    /\ UNCHANGED <<t_twists, t_revealed_twists, t_deployed_herrings,
                   t_foreshadowed, h_marked_revealed, h_marked_deployed, r_pc,
                   varsKarma, varsFaction, varsCond, varsGraph, varsRest>>

\* record_foreshadowing(twist_id)
RecordForeshadowing ==
    /\ r_pc = "idle"
    /\ \E twist_id \in TwistIds :
         /\ DictGet(t_foreshadowed, twist_id, 0) < MaxForeshadow
         /\ t_foreshadowed' = DictSet(t_foreshadowed, twist_id,
                                      DictGet(t_foreshadowed, twist_id, 0) + 1)
    /\ t_op' = "record_foreshadowing"
    /\ t_story' = EmptyDict /\ t_noise' = << >> /\ t_returned' = << >>
    /\ UNCHANGED <<t_twists, t_red_herrings, t_revealed_twists,
                   t_deployed_herrings, h_marked_revealed, h_marked_deployed,
                   r_pc, varsKarma, varsFaction, varsCond, varsGraph, varsRest>>

\* mark_revealed(twist_id)
MarkRevealed ==
    /\ r_pc = "idle"
    /\ \E twist_id \in TwistIds :
         /\ t_revealed_twists' = t_revealed_twists \cup {twist_id}
         /\ h_marked_revealed' = h_marked_revealed \cup {twist_id}
    /\ t_op' = "mark_revealed"
    /\ t_story' = EmptyDict /\ t_noise' = << >> /\ t_returned' = << >>
    /\ UNCHANGED <<t_twists, t_red_herrings, t_deployed_herrings,
                   t_foreshadowed, h_marked_deployed, r_pc,
                   varsKarma, varsFaction, varsCond, varsGraph, varsRest>>

\* mark_herring_deployed(herring_id)
MarkHerringDeployed ==
    /\ r_pc = "idle"
    /\ \E herring_id \in HerringIds :
         /\ t_deployed_herrings' = t_deployed_herrings \cup {herring_id}
         /\ h_marked_deployed' = h_marked_deployed \cup {herring_id}
    /\ t_op' = "mark_herring_deployed"
    /\ t_story' = EmptyDict /\ t_noise' = << >> /\ t_returned' = << >>
    /\ UNCHANGED <<t_twists, t_red_herrings, t_revealed_twists,
                   t_foreshadowed, h_marked_revealed, r_pc,
                   varsKarma, varsFaction, varsCond, varsGraph, varsRest>>

\* check_revelation_timing(story_state), which changes no field.
CheckRevelationTimingOn(story_state) ==
    /\ \E noise \in NoiseChoices(t_twists, t_foreshadowed, story_state) :
         /\ t_noise' = noise
         /\ t_returned' = CheckRevelationTimingResult(
                t_twists, t_revealed_twists, t_foreshadowed, story_state, noise)
    /\ t_story' = story_state
    /\ t_op' = "check_revelation_timing"
    /\ UNCHANGED <<t_twists, t_red_herrings, t_revealed_twists,
                   t_deployed_herrings, t_foreshadowed, h_marked_revealed,
                   h_marked_deployed, varsKarma, varsFaction, varsCond, varsGraph, varsRest>>

CheckRevelationTiming ==
    /\ r_pc = "idle"
    /\ \E story_state \in TwistStories : CheckRevelationTimingOn(story_state)
    /\ UNCHANGED r_pc

\* check_red_herring_deployment(story_state), which changes no field.
CheckRedHerringDeployment ==
    /\ r_pc = "idle"
    /\ \E story_state \in TwistStories :
         /\ t_story' = story_state
         /\ t_returned' = CheckRedHerringDeploymentResult(
                t_red_herrings, t_deployed_herrings, story_state)
    /\ t_noise' = << >>
    /\ t_op' = "check_red_herring_deployment"
    /\ UNCHANGED <<t_twists, t_red_herrings, t_revealed_twists,
                   t_deployed_herrings, t_foreshadowed, h_marked_revealed,
                   h_marked_deployed, r_pc,
                   varsKarma, varsFaction, varsCond, varsGraph, varsRest>>

NextTwist ==
    \/ RegisterTwist \/ RegisterRedHerring \/ RecordForeshadowing
    \/ MarkRevealed \/ MarkHerringDeployed
    \/ CheckRevelationTiming \/ CheckRedHerringDeployment

SpecTwist == InitTwist /\ [][NextTwist]_vars

(***************************************************************************)
(* SpecReveal: one check_revelation_timing call on every engine and story  *)
(* state of the bounds                                                     *)
(***************************************************************************)
InitReveal ==
    /\ r_pc = "call"
    /\ t_twists \in RevealRegistries
    /\ t_revealed_twists \in SUBSET TwistIds
    /\ h_marked_revealed = t_revealed_twists
    /\ \E counts \in [TwistIds -> 0..MaxForeshadow] :
         t_foreshadowed = [id \in {x \in TwistIds : counts[x] > 0} |-> counts[id]]
    /\ t_red_herrings = << >> /\ t_deployed_herrings = {}
    /\ h_marked_deployed = {}
    /\ t_op = "new" /\ t_story = EmptyDict /\ t_noise = << >>
    /\ t_returned = << >>
    /\ IdleKarma /\ IdleFaction /\ IdleCond /\ IdleGraph /\ IdleRest

CheckRevelationTimingCall ==
    /\ r_pc = "call"
    /\ \E story_state \in StoryStates : CheckRevelationTimingOn(story_state)
    /\ r_pc' = "ret"

NextReveal == CheckRevelationTimingCall

SpecReveal == InitReveal /\ [][NextReveal]_vars

(***************************************************************************)
(* SpecForeshadow: generate_foreshadowing calls between register_twist,    *)
(* mark_revealed and record_foreshadowing calls on one TwistEngine         *)
(***************************************************************************)
InitForeshadow ==
    /\ IdleTwist /\ IdleForeshadow
    /\ IdleKarma /\ IdleFaction /\ IdleCond /\ IdleGraph /\ IdleLater

\* What a call other than generate_foreshadowing leaves of the last one.
ForgetHints ==
    /\ t_story' = EmptyDict /\ t_scene_type' = ""
    /\ t_returned' = << >> /\ t_emitted' = << >>

\* register_twist(twist)
RegisterForeshadowTwist ==
    /\ \E twist \in ForeshadowCatalog :
         t_twists' = RegisterTwistResult(t_twists, twist)
    /\ t_op' = "register_twist"
    /\ ForgetHints
    /\ UNCHANGED <<t_red_herrings, t_revealed_twists, t_deployed_herrings,
                   t_foreshadowed, t_noise, h_marked_revealed, h_marked_deployed,
                   r_pc, h_used, varsKarma, varsFaction, varsCond, varsGraph,
                   varsLater>>

\* mark_revealed(twist_id)
MarkForeshadowRevealed ==
    /\ \E twist_id \in TwistIds :
         /\ t_revealed_twists' = t_revealed_twists \cup {twist_id}
         /\ h_marked_revealed' = h_marked_revealed \cup {twist_id}
    /\ t_op' = "mark_revealed"
    /\ ForgetHints
    /\ UNCHANGED <<t_twists, t_red_herrings, t_deployed_herrings,
                   t_foreshadowed, t_noise, h_marked_deployed, r_pc, h_used,
                   varsKarma, varsFaction, varsCond, varsGraph,
                   varsLater>>

\* generate_foreshadowing(story_state, scene_type), which changes no field.
GenerateForeshadowing ==
    /\ \E story_state \in ForeshadowStories, scene_type \in SceneTypes :
         LET result == GenerateForeshadowingResult(
                           t_twists, t_revealed_twists, t_foreshadowed,
                           story_state, scene_type)
         IN  /\ t_story' = story_state
             /\ t_scene_type' = scene_type
             /\ t_returned' = [n \in 1..Len(result) |-> result[n].hint]
             /\ t_emitted' = [n \in 1..Len(result) |-> result[n].element_id]
    /\ t_op' = "generate_foreshadowing"
    /\ UNCHANGED <<t_twists, t_red_herrings, t_revealed_twists,
                   t_deployed_herrings, t_foreshadowed, t_noise,
                   h_marked_revealed, h_marked_deployed, r_pc, h_used,
                   varsKarma, varsFaction, varsCond, varsGraph,
                   varsLater>>

\* record_foreshadowing(hint["twist_id"]) for a hint of the last call: the
\* twist id is the only id a hint carries.
RecordHintForeshadowing ==
    /\ t_op \in {"generate_foreshadowing", "record_foreshadowing"}
    /\ \E n \in 1..Len(t_returned) :
         LET twist_id == t_returned[n].twist_id
         IN  /\ WithinRecordBounds(t_foreshadowed, twist_id)
             /\ t_foreshadowed' = DictSet(t_foreshadowed, twist_id,
                                      DictGet(t_foreshadowed, twist_id, 0) + 1)
             /\ h_used' = h_used \cup {t_emitted[n]}
    /\ t_op' = "record_foreshadowing"
    /\ UNCHANGED <<t_twists, t_red_herrings, t_revealed_twists,
                   t_deployed_herrings, t_noise, t_story, t_scene_type,
                   t_returned, t_emitted, h_marked_revealed, h_marked_deployed,
                   r_pc, varsKarma, varsFaction, varsCond, varsGraph,
                   varsLater>>

\* record_foreshadowing(element_id) for a hint of the last call, by a caller
\* that rebuilds the element_id from the campaign data.
RecordElementForeshadowing ==
    /\ t_op \in {"generate_foreshadowing", "record_foreshadowing"}
    /\ \E n \in 1..Len(t_returned) :
         LET element_id == t_emitted[n]
         IN  /\ WithinRecordBounds(t_foreshadowed, element_id)
             /\ t_foreshadowed' = DictSet(t_foreshadowed, element_id,
                                      DictGet(t_foreshadowed, element_id, 0) + 1)
             /\ h_used' = h_used \cup {element_id}
    /\ t_op' = "record_foreshadowing"
    /\ UNCHANGED <<t_twists, t_red_herrings, t_revealed_twists,
                   t_deployed_herrings, t_noise, t_story, t_scene_type,
                   t_returned, t_emitted, h_marked_revealed, h_marked_deployed,
                   r_pc, varsKarma, varsFaction, varsCond, varsGraph,
                   varsLater>>

NextForeshadow ==
    \/ RegisterForeshadowTwist \/ MarkForeshadowRevealed
    \/ GenerateForeshadowing
    \/ RecordHintForeshadowing \/ RecordElementForeshadowing

SpecForeshadow == InitForeshadow /\ [][NextForeshadow]_vars

(***************************************************************************)
(* SpecEmotion: one _calculate_emotional_transition call                   *)
(***************************************************************************)
MaxDelta == 8

\* The states of EMOTIONAL_TRANSITIONS and two it only leads to.
EmotionalStates ==
    {"neutral", "friendly", "suspicious", "hostile", "grateful", "fearful",
     "sad", "desperate"}

\* The action types of the tables, two keys of TRAIT_REACTION_MODIFIERS and
\* one action type of no table.
ReactionActions == ReactionTypes \cup {"betrayal", "kept_promise", "wave"}

InitEmotion ==
    /\ e_pc = "call"
    /\ e_current_state \in EmotionalStates
    /\ e_action_type \in ReactionActions
    /\ e_relation_change \in (0 - MaxDelta)..MaxDelta
    /\ e_new_state = ""
    /\ IdleButEmotion

CalculateEmotionalTransitionCall ==
    /\ e_pc = "call"
    /\ e_new_state' = CalculateEmotionalTransition(
                          e_current_state, e_action_type, e_relation_change)
    /\ e_pc' = "ret"
    /\ UNCHANGED <<e_current_state, e_action_type, e_relation_change,
                   varsButEmotion>>

NextEmotion == CalculateEmotionalTransitionCall

SpecEmotion == InitEmotion /\ [][NextEmotion]_vars

(***************************************************************************)
(* SpecReaction: one calculate_reaction call                               *)
(***************************************************************************)
\* NPCs for the betrayal and redemption checks.
TriggerNpcs ==
    {NPCState("advisor", true_role, DefaultPersonality, << >>,
              betrayal_threshold, redemption_threshold) :
        true_role \in {None, Some(""), Some("advisor"), Some("traitor")},
        betrayal_threshold \in {None, Some(0), Some(40), Some(-5)},
        redemption_threshold \in {None, Some(20)}}

TriggerRelationships ==
    {NPCRelationship(relationship_score, 50, << >>, 0, "neutral",
                     betrayal_triggered, redemption_triggered) :
        relationship_score \in {0, 35, 50, 60, 75, 100},
        betrayal_triggered \in BOOLEAN, redemption_triggered \in BOOLEAN}

\* NPCs for the secret reveal: one of them of strong character.
SecretNpcs ==
    {NPCState("advisor", None, personality, secrets, None, None) :
        personality \in {DefaultPersonality,
                         [DefaultPersonality EXCEPT !.loyalty = 100, !.honor = 0]},
        secrets \in {<< >>, <<"s1">>, <<"s1", "s2">>}}

SecretRelationships ==
    {NPCRelationship(50, trust_level, known_secrets, interactions_count,
                     "neutral", FALSE, FALSE) :
        trust_level \in {55, 65, 72, 75},
        known_secrets \in {<< >>, <<"s1">>, <<"s2">>, <<"s1", "s2">>},
        interactions_count \in {0, 4, 5}}

InitReaction ==
    /\ n_pc = "call"
    /\ \/ n_npc \in TriggerNpcs /\ n_relationship \in TriggerRelationships
       \/ n_npc \in SecretNpcs /\ n_relationship \in SecretRelationships
    /\ n_action_type \in ReactionActions
    /\ n_reaction = NoReaction
    /\ n_memory = None /\ h_betrayals = 0 /\ h_redemptions = 0
    /\ IdleButNpc

CalculateReactionCall ==
    /\ n_pc = "call"
    /\ n_reaction' = CalculateReaction(n_npc, n_relationship, n_action_type)
    /\ n_pc' = "ret"
    /\ UNCHANGED <<n_npc, n_relationship, n_action_type, n_memory,
                   h_betrayals, h_redemptions, varsButNpc>>

NextReaction == CalculateReactionCall

SpecReaction == InitReaction /\ [][NextReaction]_vars

(***************************************************************************)
(* SpecNpc: /npc-reaction requests on one relationship                     *)
(***************************************************************************)
MaxInteractions == 5

HandlerNpcs ==
    {NPCState("advisor", true_role, DefaultPersonality, secrets,
              thresholds[1], thresholds[2]) :
        true_role \in {None, Some("traitor")},
        secrets \in {<< >>, <<"s1">>},
        thresholds \in {<<None, None>>, <<Some(40), Some(20)>>}}

\* Rows of room_npc_relationships no request has touched.
HandlerRows ==
    {NPCRelationship(relationship_score, trust_level, << >>, 0, "neutral",
                     FALSE, FALSE) :
        relationship_score \in {0, 50, 100}, trust_level \in {50, 100}}

HandlerActions == {"saved", "trusted", "insulted", "betrayed"}

InitNpc ==
    /\ n_pc = "idle"
    /\ n_npc \in HandlerNpcs
    /\ n_relationship \in HandlerRows
    /\ n_action_type = "" /\ n_reaction = NoReaction
    /\ n_memory = None /\ h_betrayals = 0 /\ h_redemptions = 0
    /\ IdleButNpc

\* POST /npc-reaction for an NPC and a relationship row that exist.
NpcReactionRequest ==
    /\ n_pc = "idle"
    /\ n_relationship.interactions_count < MaxInteractions
    /\ \E action_type \in HandlerActions :
         LET relationship == n_relationship
             reaction == CalculateReaction(n_npc, relationship, action_type)
             new_relationship == relationship.relationship_score
                                     + reaction.relationship_change
             new_trust == relationship.trust_level + reaction.trust_change
         IN  /\ n_action_type' = action_type
             /\ n_reaction' = reaction
             /\ n_relationship' = UpsertRoomNpcRelationship(
                    n_relationship, new_relationship, new_trust,
                    reaction.emotional_response, reaction.reveals_secret,
                    TrueOrNone(reaction.triggers_betrayal),
                    TrueOrNone(reaction.triggers_redemption))
             /\ n_memory' = AddNpcInteraction(
                    UpdateNpcMemory(n_memory,
                        [relationship |-> new_relationship, trust |-> new_trust,
                         emotional_state |-> reaction.emotional_response]),
                    action_type)
             /\ h_betrayals' = h_betrayals
                    + (IF reaction.triggers_betrayal THEN 1 ELSE 0)
             /\ h_redemptions' = h_redemptions
                    + (IF reaction.triggers_redemption THEN 1 ELSE 0)
    /\ UNCHANGED <<n_pc, n_npc, varsButNpc>>

NextNpc == NpcReactionRequest

SpecNpc == InitNpc /\ [][NextNpc]_vars

(***************************************************************************)
(* SpecProgress: /process-decision, /update-progress and /process-response *)
(* requests on one room                                                    *)
(***************************************************************************)
MaxEffect == 120
MaxClues == 1

\* Karma effects of decision options, progress updates and karma markers.
KarmaEffects == {0 - MaxEffect, 0, 40, MaxEffect}

\* A value a request may leave out.
Optional(values) == {None} \cup {Some(value) : value \in values}

InitProgress ==
    /\ p_op = "start" /\ p_karma_change = 0
    /\ p_progress \in {RoomProgress(1, 1, 1, 50, {}, EmptyDict, << >>, code) :
                          code \in Optional({"d1"})}
    /\ p_story_state \in
           {None, Some([current_act |-> 1, current_chapter |-> 1,
                        current_scene |-> 1, karma |-> 50])}
    /\ p_pending = p_progress.pending_decision_code
    /\ p_ai_context = TRUE
    /\ IdleButProgress /\ IdleNpc

\* POST /process-decision for a decision d1 and an option of it that exist:
\* option "a" sets the flag f1, option "b" none.
ProcessDecision ==
    /\ \E chosen_option \in {"a", "b"}, karma_change \in KarmaEffects :
         LET flags_set == IF chosen_option = "a" THEN {"f1"} ELSE {}
         IN  /\ p_karma_change' = karma_change
             /\ p_progress' = UpdateRoomProgress(
                    p_progress, None, None, None,
                    Some(p_progress.karma + karma_change),
                    IF flags_set # {} THEN Some(flags_set) ELSE None,
                    Some(<<"d1", chosen_option>>), None, TRUE)
    /\ p_pending' = None
    /\ p_ai_context' = FALSE
    /\ p_op' = "process_decision"
    /\ UNCHANGED <<p_story_state, varsButProgress, varsNpc>>

\* POST /update-progress
UpdateProgress ==
    /\ \E position \in {<<None, None, None>>, <<Some(2), Some(1), Some(3)>>},
          karma_change \in Optional(KarmaEffects),
          new_flags \in Optional({{"f1"}}),
          new_clues \in Optional({<<"c1">>}),
          decision_made \in Optional({<<"d1", "a">>}) :
         LET new_karma ==
                 IF karma_change # None /\ karma_change # Some(0)
                 THEN Some(Max(0, Min(100, p_progress.karma + karma_change[1])))
                 ELSE None
             redis_updates == RedisUpdates(position[1], position[2],
                                           position[3], new_karma)
         IN  /\ new_clues # None =>
                    Len(p_progress.revealed_clues) < MaxClues
             /\ p_karma_change' = IF karma_change # None THEN karma_change[1]
                                  ELSE 0
             /\ p_progress' = UpdateRoomProgress(
                    p_progress, position[1], position[2], position[3],
                    new_karma, new_flags, decision_made, new_clues, FALSE)
             /\ p_story_state' = IF DOMAIN redis_updates # {}
                                 THEN UpdateStoryState(p_story_state, redis_updates)
                                 ELSE p_story_state
    /\ p_ai_context' = FALSE
    /\ p_op' = "update_progress"
    /\ UNCHANGED <<p_pending, varsButProgress, varsNpc>>

\* POST /process-response with the markers karma, npc_reactions (of an NPC
\* that exists), clues_revealed and decision_triggered (of a decision that
\* exists), each present or not.
ProcessResponse ==
    /\ \E karma \in Optional(KarmaEffects),
          npc_reactions \in Optional({"hostile"}),
          clues_revealed \in Optional({<<"c1">>}),
          decision_triggered \in Optional({"d1"}) :
         LET new_karma ==
                 IF karma # None
                 THEN Some(Max(0, Min(100, p_progress.karma + karma[1])))
                 ELSE None
             updates_made ==
                 karma # None \/ npc_reactions # None
                     \/ clues_revealed # None \/ decision_triggered # None
         IN  /\ clues_revealed # None =>
                    Len(p_progress.revealed_clues) < MaxClues
             /\ p_karma_change' = IF karma # None THEN karma[1] ELSE 0
             /\ p_progress' = UpdateRoomProgress(
                    UpdateRoomProgress(p_progress, None, None, None, new_karma,
                                       None, None, None, FALSE),
                    None, None, None, None, None, None, clues_revealed, FALSE)
             /\ p_story_state' =
                    IF karma # None
                    THEN UpdateStoryState(p_story_state, [karma |-> new_karma[1]])
                    ELSE p_story_state
             /\ n_memory' =
                    IF npc_reactions # None
                    THEN UpdateNpcMemory(n_memory,
                             [emotional_state |-> npc_reactions[1]])
                    ELSE n_memory
             /\ p_pending' = IF decision_triggered # None THEN decision_triggered
                             ELSE p_pending
             /\ p_ai_context' = IF updates_made THEN FALSE ELSE p_ai_context
    /\ p_op' = "process_response"
    /\ UNCHANGED <<n_pc, n_npc, n_relationship, n_action_type, n_reaction,
                   h_betrayals, h_redemptions, varsButProgress>>

NextProgress == ProcessDecision \/ UpdateProgress \/ ProcessResponse

SpecProgress == InitProgress /\ [][NextProgress]_vars

(***************************************************************************)
(* SpecAnalyzer: one _classify_action_type or _detect_npc_interactions     *)
(* call on a message                                                       *)
(***************************************************************************)
MaxWords == 3

\* Words of the pattern tables and two NPC codes.
Vocabulary ==
    {"busco", "espada", "hablo", "leo", "carta", "uso", "magia",
     "amablemente", "confronto", "engaño", "varen", "lira"}

Messages == UNION {[1..n -> Vocabulary] : n \in 1..MaxWords}

ActiveNpcs ==
    {<< >>, <<"varen">>, <<"Lira">>, <<"varen", "Lira">>, <<"Lira", "varen">>}

InitAnalyzer ==
    /\ a_pc = "call"
    /\ a_message \in Messages
    /\ a_active_npcs \in ActiveNpcs
    /\ a_action_type = "" /\ a_confidence = 0 /\ a_interactions = EmptyDict
    /\ IdleButAnalyzer

ClassifyActionTypeCall ==
    /\ a_pc = "call"
    /\ LET result == ClassifyActionType(a_message)
       IN  /\ a_action_type' = result.action_type
           /\ a_confidence' = result.confidence
    /\ a_pc' = "classified"
    /\ UNCHANGED <<a_message, a_active_npcs, a_interactions, varsButAnalyzer>>

DetectNpcInteractionsCall ==
    /\ a_pc = "call"
    /\ a_interactions' = DetectNpcInteractions(a_message, a_active_npcs)
    /\ a_pc' = "detected"
    /\ UNCHANGED <<a_message, a_active_npcs, a_action_type, a_confidence,
                   varsButAnalyzer>>

NextAnalyzer == ClassifyActionTypeCall \/ DetectNpcInteractionsCall

SpecAnalyzer == InitAnalyzer /\ [][NextAnalyzer]_vars

(***************************************************************************)
(* SpecAhead: a StoryGraph built by add_node / add_edge, then one          *)
(* get_decision_points_ahead call                                          *)
(***************************************************************************)
\* At most MaxAheadEdges edges are added, and max_depth is at most
\* MaxAheadDepth.
MaxAheadEdges == 4
MaxAheadDepth == 2

\* The node ids add_node is called with, in the order of the calls, and the
\* node_type of each.
AheadOrder == <<"s1", "s2", "d1", "d2">>
AheadTypeOf == [s1 |-> "scene", s2 |-> "scene", d1 |-> "decision", d2 |-> "decision"]

\* graph.successors(node_id), in adjacency order.
Successors(succ, node_id) == DictGet(succ, node_id, << >>)

\* explore(node_id, depth) of get_decision_points_ahead and its loop over
\* the successors from the i-th on.  acc holds the closure's visited set and
\* decision_points list.
RECURSIVE Explore(_, _, _, _, _, _)
RECURSIVE ExploreFrom(_, _, _, _, _, _, _)
Explore(succ, decision_points, max_depth, acc, node_id, depth) ==
    IF depth > max_depth \/ node_id \in acc.visited THEN acc
    ELSE LET entered ==
                 [visited |-> acc.visited \cup {node_id},
                  decision_points |->
                      IF node_id \in decision_points
                      THEN Append(acc.decision_points,
                                  [node_id |-> node_id, depth |-> depth])
                      ELSE acc.decision_points]
         IN  ExploreFrom(succ, decision_points, max_depth, entered,
                         Successors(succ, node_id), 1, depth + 1)

ExploreFrom(succ, decision_points, max_depth, acc, list, i, depth) ==
    IF i > Len(list) THEN acc
    ELSE ExploreFrom(succ, decision_points, max_depth,
                     Explore(succ, decision_points, max_depth, acc, list[i], depth),
                     list, i + 1, depth)

\* get_decision_points_ahead(current_node, max_depth): the list returned.
GetDecisionPointsAheadResult(succ, decision_points, current_node, max_depth) ==
    Explore(succ, decision_points, max_depth,
            [visited |-> {}, decision_points |-> << >>],
            current_node, 0).decision_points

InitAhead == IdleAhead /\ IdleButAhead

\* add_node(StoryNode(node_id, node_type)), the nodes in AheadOrder.
AheadAddNode ==
    /\ d_pc = "build"
    /\ \E i \in DOMAIN AheadOrder :
         LET node_id == AheadOrder[i]
         IN  /\ \A j \in 1..(i - 1) : AheadOrder[j] \in d_nodes
             /\ node_id \notin d_decision_points
             /\ \/ node_id \notin d_nodes
                \/ AheadTypeOf[node_id] = "decision"
             /\ d_nodes' = d_nodes \cup {node_id}
             /\ d_decision_points' =
                    IF AheadTypeOf[node_id] = "decision"
                    THEN d_decision_points \cup {node_id}
                    ELSE d_decision_points
    /\ UNCHANGED <<d_pc, d_succ, d_current, d_max_depth, d_result, d_raised,
                   varsButAhead>>

\* add_edge(StoryEdge(from_node, to_node)): graph.add_edge adds the end
\* nodes it misses and, for a new edge, puts to_node last among the
\* successors of from_node.
AheadAddEdge ==
    /\ d_pc = "build"
    /\ \E u \in Range(AheadOrder), v \in Range(AheadOrder) :
         LET old == Successors(d_succ, u)
             edges == {<<x, y>> \in (DOMAIN d_succ) \X Range(AheadOrder) :
                          y \in Range(d_succ[x])}
         IN  /\ Cardinality(edges \cup {<<u, v>>}) <= MaxAheadEdges
             /\ d_nodes' = d_nodes \cup {u, v}
             /\ d_succ' = DictSet(d_succ, u,
                                  IF v \in Range(old) THEN old ELSE Append(old, v))
    /\ UNCHANGED <<d_pc, d_decision_points, d_current, d_max_depth, d_result,
                   d_raised, varsButAhead>>

\* get_decision_points_ahead(current_node, max_depth).  graph.successors
\* raises NetworkXError for a current_node that is not in the graph.
GetDecisionPointsAhead ==
    /\ d_pc = "build"
    /\ \E current_node \in Range(AheadOrder), max_depth \in 0..MaxAheadDepth :
         /\ d_current' = current_node
         /\ d_max_depth' = max_depth
         /\ IF current_node \notin d_nodes
            THEN d_raised' = TRUE /\ d_result' = << >>
            ELSE /\ d_raised' = FALSE
                 /\ d_result' = GetDecisionPointsAheadResult(
                                    d_succ, d_decision_points, current_node, max_depth)
    /\ d_pc' = "ret"
    /\ UNCHANGED <<d_nodes, d_succ, d_decision_points, varsButAhead>>

NextAhead == AheadAddNode \/ AheadAddEdge \/ GetDecisionPointsAhead

SpecAhead == InitAhead /\ [][NextAhead]_vars

(***************************************************************************)
(* SpecCampaign: build_from_campaign_data on a new StoryGraph, then one    *)
(* calculate_ending_probabilities call from a scene node                   *)
(***************************************************************************)
\* A scene has at most MaxBranches branch triggers, and scene ids are
\* 1 .. MaxSceneId.
MaxBranches == 2
MaxSceneId == 3

\* f"scene_{scene['id']}", f"decision_{decision['decision_code']}",
\* f"ending_{ending['code']}"
SceneNodeId(id) == "scene_" \o ToString(id)
DecisionNodeId(decision_code) == "decision_" \o decision_code
EndingNodeId(code) == "ending_" \o code

\* The StoryGraph fields as one value.
GraphOf(nodes, edges, endings, decision_points) ==
    [nodes |-> nodes, edges |-> edges, endings |-> endings,
     decision_points |-> decision_points]

\* add_node(StoryNode(node_id, node_type)) on the fields.
AddNodeTo(graph, node_id, node_type) ==
    [graph EXCEPT
        !.nodes = DictSet(@, node_id, node_type),
        !.endings = IF node_type = "ending" THEN @ \cup {node_id} ELSE @,
        !.decision_points =
            IF node_type # "ending" /\ node_type = "decision"
            THEN @ \cup {node_id} ELSE @]

\* add_edge(StoryEdge(from_node, to_node, condition, probability, label)):
\* graph.add_edge sets the three attributes of the edge, new or not.
AddEdgeTo(graph, from_node, to_node, condition, probability, label) ==
    [graph EXCEPT
        !.nodes = GraphAddEdge(@, from_node, to_node),
        !.edges = DictSet(@, <<from_node, to_node>>,
                          [condition |-> condition, probability |-> probability,
                           label |-> label])]

\* branch.get("probability", 0.5), in halves.
BranchProbability(branch) ==
    IF branch.probability = None THEN 1 ELSE branch.probability[1]

\* A target that lets the branch triggers to scene 1 lead to an ending.
BranchTargetOrEnding(branch) ==
    IF branch.target_scene = 1 THEN EndingNodeId("good")
    ELSE SceneNodeId(branch.target_scene)

\* to_node of the edge of a branch trigger: the scene node of target_scene.
BranchTarget(branch) == SceneNodeId(branch.target_scene)

\* "Add branch edges": the loop from the i-th branch trigger on.
RECURSIVE AddBranchEdges(_, _, _, _)
AddBranchEdges(graph, node_id, branch_triggers, i) ==
    IF i > Len(branch_triggers) THEN graph
    ELSE LET branch == branch_triggers[i]
         IN  AddBranchEdges(
                 AddEdgeTo(graph, node_id, BranchTarget(branch), branch.condition,
                           BranchProbability(branch), branch.label),
                 node_id, branch_triggers, i + 1)

\* The body of the loop over the scenes: the scene node, the edge to the
\* default next scene when scene.get("next_scene_default") is truthy, the
\* branch edges.
AddScene(graph, scene) ==
    LET node_id == SceneNodeId(scene.id)
        with_node == AddNodeTo(graph, node_id, "scene")
        next_scene_default == scene.next_scene_default
        with_default ==
            IF next_scene_default # None /\ next_scene_default[1] # 0
            THEN AddEdgeTo(with_node, node_id, SceneNodeId(next_scene_default[1]),
                           PyNone, 2, PyNone)
            ELSE with_node
    IN  AddBranchEdges(with_default, node_id, scene.branch_triggers, 1)

\* The loops over acts, chapters and scenes, the scenes in the order the
\* loops reach them.
RECURSIVE AddScenes(_, _, _)
AddScenes(graph, scenes, i) ==
    IF i > Len(scenes) THEN graph
    ELSE AddScenes(AddScene(graph, scenes[i]), scenes, i + 1)

\* "Add decision nodes" (node_type "decision") and "Add ending nodes"
\* (node_type "ending"): add_node for each id.
RECURSIVE AddNodes(_, _, _, _)
AddNodes(graph, node_ids, node_type, i) ==
    IF i > Len(node_ids) THEN graph
    ELSE AddNodes(AddNodeTo(graph, node_ids[i], node_type), node_ids, node_type, i + 1)

\* build_from_campaign_data(campaign_data) on the fields of the graph.
BuildFromCampaignDataResult(graph, campaign_data) ==
    LET scenes == AddScenes(graph, campaign_data.scenes, 1)
        decisions ==
            AddNodes(scenes,
                     [i \in DOMAIN campaign_data.decisions |->
                         DecisionNodeId(campaign_data.decisions[i])],
                     "decision", 1)
    IN  AddNodes(decisions,
                 [i \in DOMAIN campaign_data.endings |->
                     EndingNodeId(campaign_data.endings[i])],
                 "ending", 1)

\* The branch triggers of the campaigns: a condition, probability and label
\* of its own, or none of the three (probability then defaults to 0.5).
BranchTriggers ==
    { [target_scene |-> t, condition |-> a.condition,
       probability |-> a.probability, label |-> a.label] :
        t \in 1..MaxSceneId,
        a \in { [condition |-> PyStr(<<"x", ":", "t", "r", "u", "e">>),
                 probability |-> Some(2), label |-> PyStr(<<"L">>)],
                [condition |-> PyNone, probability |-> None, label |-> PyNone] } }

BranchLists(n) == UNION {[1..k -> BranchTriggers] : k \in 0..n}

Scene(id, next_scene_default, branch_triggers) ==
    [id |-> id, next_scene_default |-> next_scene_default,
     branch_triggers |-> branch_triggers]

\* The campaigns: scene 1, followed or not by scene 2 (scene ids above 2
\* are targets no scene declares), one decision, one or two endings.
Campaigns ==
    { [scenes |-> <<first>> \o rest, decisions |-> <<"d">>, endings |-> endings] :
        first \in { Scene(1, n, b) :
                      n \in {None} \cup {Some(t) : t \in 2..MaxSceneId},
                      b \in BranchLists(MaxBranches) },
        rest \in { << >> } \cup
                 { <<Scene(2, n, b)>> :
                      n \in {None, Some(1)}, b \in BranchLists(1) },
        endings \in { <<"good">>, <<"good", "bad">> } }

InitCampaign == IdleButCampaign /\ b_campaign \in Campaigns

\* StoryGraph().build_from_campaign_data(campaign_data)
BuildFromCampaignData ==
    /\ g_pc = "build"
    /\ LET graph == BuildFromCampaignDataResult(
                        GraphOf(g_nodes, g_edges, g_endings, g_decision_points),
                        b_campaign)
       IN  /\ g_nodes' = graph.nodes
           /\ g_edges' = graph.edges
           /\ g_endings' = graph.endings
           /\ g_decision_points' = graph.decision_points
    /\ g_pc' = "built"
    /\ UNCHANGED <<q_node, q_decisions, q_flags, q_weights, q_result, q_raised,
                   b_campaign, varsButCampaign>>

\* calculate_ending_probabilities(current_node, decisions_made, story_flags)
\* on the graph built, current_node a scene node of the campaign;
\* q_weights has a key for each key of find_paths_to_endings(current_node).
CampaignEndingProbabilities ==
    /\ g_pc = "built"
    /\ \E i \in DOMAIN b_campaign.scenes, st \in QueryStates :
         LET current_node == SceneNodeId(b_campaign.scenes[i].id)
             paths_by_ending ==
                 FindPathsToEndings(g_edges, g_endings, current_node, FALSE)
             weights ==
                 [e \in DOMAIN paths_by_ending |->
                     EndingWeight(g_edges, paths_by_ending[e],
                                  st.decisions, st.flags)]
         IN  /\ q_node' = current_node
             /\ q_decisions' = st.decisions
             /\ q_flags' = st.flags
             /\ q_raised' = FALSE
             /\ q_weights' = weights
             /\ \E ups \in SUBSET RoundingTies(weights) :
                    q_result' = IF DOMAIN paths_by_ending = {}
                                THEN EmptyDict
                                ELSE Normalize(weights, ups)
    /\ g_pc' = "ret"
    /\ UNCHANGED <<g_nodes, g_edges, g_endings, g_decision_points, b_campaign,
                   varsButCampaign>>

NextCampaign == BuildFromCampaignData \/ CampaignEndingProbabilities

SpecCampaign == InitCampaign /\ [][NextCampaign]_vars

(***************************************************************************)
(* SpecPoll: one call of check_revelation_timing (as /check-trigger calls   *)
(* it), generate_foreshadowing or check_red_herring_deployment on a        *)
(* TwistEngine, then the same call repeated with the same arguments        *)
(***************************************************************************)
\* The twists of the engine: every requirement profile, with foreshadowing
\* elements.
PollCatalog ==
    {WithForeshadowing(twist, <<ElementAny, ElementCombat>>, 5) :
        twist \in RevealCatalog}

PollRegistries ==
    {<< >>} \cup {<<x>> : x \in PollCatalog}
    \cup {pair \in PollCatalog \X PollCatalog :
               pair[1].twist_id # pair[2].twist_id}

\* The foreshadowed dicts: nothing recorded, a twist id recorded, an
\* element id recorded.
PollForeshadowed ==
    {EmptyDict, [t1 |-> MaxForeshadow], [t2 |-> 1], [t1_default |-> 1]}

PollStories ==
    {StoryState(act, clues, flags, tension) :
        act \in 1..MaxAct, clues \in SUBSET ClueIds,
        flags \in {EmptyDict, [f |-> PyBool(TRUE)]},
        tension \in {"normal", "critical"}}

InitPoll ==
    /\ r_pc = "idle"
    /\ t_twists \in PollRegistries
    /\ t_revealed_twists \in {{}, {"t1"}}
    /\ h_marked_revealed = t_revealed_twists
    /\ t_foreshadowed \in PollForeshadowed
    /\ t_red_herrings \in {<< >>, <<RedHerring("h1", "c1", 0), RedHerring("h2", "", 2)>>}
    /\ t_deployed_herrings \in {{}, {"h1"}}
    /\ h_marked_deployed = t_deployed_herrings
    /\ t_op = "new" /\ t_story = EmptyDict /\ t_noise = << >>
    /\ t_returned = << >>
    /\ IdleForeshadow
    /\ IdleKarma /\ IdleFaction /\ IdleCond /\ IdleGraph /\ IdleLater

\* A check_revelation_timing that marks the twist it returns as revealed.
PollRevelationTimingAndMark ==
    /\ r_pc = "idle"
    /\ \E story_state \in PollStories :
       \E noise \in NoiseChoices(t_twists, t_foreshadowed, story_state) :
         LET returned == CheckRevelationTimingResult(
                             t_twists, t_revealed_twists, t_foreshadowed,
                             story_state, noise)
         IN  /\ t_noise' = noise
             /\ t_returned' = returned
             /\ t_story' = story_state
             /\ t_revealed_twists' =
                    t_revealed_twists \cup {returned[i].twist_id : i \in DOMAIN returned}
    /\ t_op' = "check_revelation_timing"
    /\ r_pc' = "polled"
    /\ UNCHANGED <<t_twists, t_red_herrings, t_deployed_herrings,
                   t_foreshadowed, h_marked_revealed, h_marked_deployed,
                   varsForeshadow, varsKarma, varsFaction, varsCond, varsGraph,
                   varsLater>>

\* check_trigger with trigger_type "revelation": the story state is put
\* together from the progress row and the request, and
\* check_revelation_timing(story_state) is called; neither assigns to a
\* field of the engine.
PollRevelationTiming ==
    /\ r_pc = "idle"
    /\ \E story_state \in PollStories :
       \E noise \in NoiseChoices(t_twists, t_foreshadowed, story_state) :
         /\ t_noise' = noise
         /\ t_returned' = CheckRevelationTimingResult(
                t_twists, t_revealed_twists, t_foreshadowed, story_state, noise)
         /\ t_story' = story_state
    /\ t_op' = "check_revelation_timing"
    /\ r_pc' = "polled"
    /\ UNCHANGED <<t_twists, t_red_herrings, t_revealed_twists,
                   t_deployed_herrings, t_foreshadowed, h_marked_revealed,
                   h_marked_deployed, varsForeshadow,
                   varsKarma, varsFaction, varsCond, varsGraph, varsLater>>

\* generate_foreshadowing(story_state, scene_type), which assigns to no
\* field.
PollForeshadowing ==
    /\ r_pc = "idle"
    /\ \E story_state \in PollStories, scene_type \in SceneTypes :
         LET result == GenerateForeshadowingResult(
                           t_twists, t_revealed_twists, t_foreshadowed,
                           story_state, scene_type)
         IN  /\ t_story' = story_state
             /\ t_scene_type' = scene_type
             /\ t_returned' = [n \in 1..Len(result) |-> result[n].hint]
             /\ t_emitted' = [n \in 1..Len(result) |-> result[n].element_id]
    /\ t_op' = "generate_foreshadowing"
    /\ r_pc' = "polled"
    /\ UNCHANGED <<t_twists, t_red_herrings, t_revealed_twists,
                   t_deployed_herrings, t_foreshadowed, t_noise,
                   h_marked_revealed, h_marked_deployed, h_used,
                   varsKarma, varsFaction, varsCond, varsGraph, varsLater>>

\* check_red_herring_deployment(story_state), which assigns to no field.
PollRedHerringDeployment ==
    /\ r_pc = "idle"
    /\ \E story_state \in PollStories :
         /\ t_story' = story_state
         /\ t_returned' = CheckRedHerringDeploymentResult(
                t_red_herrings, t_deployed_herrings, story_state)
    /\ t_op' = "check_red_herring_deployment"
    /\ r_pc' = "polled"
    /\ UNCHANGED <<t_twists, t_red_herrings, t_revealed_twists,
                   t_deployed_herrings, t_foreshadowed, t_noise,
                   h_marked_revealed, h_marked_deployed, varsForeshadow,
                   varsKarma, varsFaction, varsCond, varsGraph, varsLater>>

\* The last call made once more with the same arguments.  The float scores
\* are those of the last call when the fields are: t_noise orders them.
PollAgain ==
    /\ r_pc \in {"polled", "again"}
    /\ CASE t_op = "check_revelation_timing" ->
              /\ t_returned' = CheckRevelationTimingResult(
                     t_twists, t_revealed_twists, t_foreshadowed, t_story, t_noise)
              /\ UNCHANGED t_emitted
         [] t_op = "generate_foreshadowing" ->
              LET result == GenerateForeshadowingResult(
                                t_twists, t_revealed_twists, t_foreshadowed,
                                t_story, t_scene_type)
              IN  /\ t_returned' = [n \in 1..Len(result) |-> result[n].hint]
                  /\ t_emitted' = [n \in 1..Len(result) |-> result[n].element_id]
         [] OTHER ->
              /\ t_returned' = CheckRedHerringDeploymentResult(
                     t_red_herrings, t_deployed_herrings, t_story)
              /\ UNCHANGED t_emitted
    /\ r_pc' = "again"
    /\ UNCHANGED <<t_twists, t_red_herrings, t_revealed_twists,
                   t_deployed_herrings, t_foreshadowed, t_op, t_story, t_noise,
                   h_marked_revealed, h_marked_deployed, t_scene_type, h_used,
                   varsKarma, varsFaction, varsCond, varsGraph, varsLater>>

NextPoll ==
    \/ PollRevelationTiming \/ PollForeshadowing \/ PollRedHerringDeployment
    \/ PollAgain

SpecPoll == InitPoll /\ [][NextPoll]_vars

(***************************************************************************)
(* SpecPersonality: one calculate_reaction call for every personality and  *)
(* action type of the bounds                                               *)
(***************************************************************************)
\* NPCPersonality declares plain ints: a trait is 0, 50 (the default), 100
\* or MaxTrait.
MaxTrait == 250

\* The default personality, each trait with a modifier entry set to another
\* value, and all of these traits at 100.
Personalities ==
    {DefaultPersonality}
    \cup {[DefaultPersonality EXCEPT ![trait] = value] :
             trait \in DOMAIN TRAIT_REACTION_MODIFIERS, value \in {0, 100, MaxTrait}}
    \cup {[trait \in DOMAIN DefaultPersonality |->
             IF trait \in DOMAIN TRAIT_REACTION_MODIFIERS THEN 100 ELSE 50]}

\* The action types of TRAIT_REACTION_MODIFIERS.
ModifiedTypes ==
    UNION {DOMAIN TRAIT_REACTION_MODIFIERS[trait] :
              trait \in DOMAIN TRAIT_REACTION_MODIFIERS}

\* Every action type of a table of the brain, and two of none.
PersonalityActions == ReactionTypes \cup ModifiedTypes \cup {"unknown", ""}

InitPersonality ==
    /\ n_pc = "call"
    /\ \E personality \in Personalities :
         n_npc = NPCState("advisor", None, personality, << >>, None, None)
    /\ n_relationship \in {NPCRelationship(50, 50, << >>, 0, emotional_state, FALSE, FALSE) :
                              emotional_state \in {"neutral", "hostile"}}
    /\ n_action_type \in PersonalityActions
    /\ n_reaction = NoReaction
    /\ n_memory = None /\ h_betrayals = 0 /\ h_redemptions = 0
    /\ IdleButNpc

SpecPersonality == InitPersonality /\ [][NextReaction]_vars

(***************************************************************************)
(* SpecMood: calculate_reaction called again and again on one              *)
(* relationship, the emotional_response of a call being the               *)
(* emotional_state of the next                                             *)
(***************************************************************************)
InitMood ==
    /\ n_pc = "call"
    /\ \E personality \in Personalities :
         n_npc = NPCState("advisor", None, personality, << >>, None, None)
    /\ n_relationship = NPCRelationship(50, 50, << >>, 0, "neutral", FALSE, FALSE)
    /\ n_action_type = ""
    /\ n_reaction = NoReaction
    /\ n_memory = None /\ h_betrayals = 0 /\ h_redemptions = 0
    /\ IdleButNpc

\* calculate_reaction(npc, relationship, player_action, action_type), then
\* relationship.emotional_state = reaction.emotional_response.
ReactAndFeedBack ==
    /\ n_pc = "call"
    /\ \E action_type \in PersonalityActions :
         LET reaction == CalculateReaction(n_npc, n_relationship, action_type)
         IN  /\ n_action_type' = action_type
             /\ n_reaction' = reaction
             /\ n_relationship' =
                    [n_relationship EXCEPT
                        !.emotional_state = reaction.emotional_response]
    /\ UNCHANGED <<n_pc, n_npc, n_memory, h_betrayals, h_redemptions, varsButNpc>>

NextMood == ReactAndFeedBack

SpecMood == InitMood /\ [][NextMood]_vars

(***************************************************************************)
(* SpecStarved: one check_revelation_timing call on an engine with a twist *)
(* that asks for more clues than it lists                                  *)
(***************************************************************************)
\* Twists whose min_clues_for_reveal is above the number of their distinct
\* required clues: no clue and the default minimum of 2, one clue, one clue
\* listed twice, two clues and a minimum of 3.
StarvedProfiles ==
    {Twist("", << >>, 2, << >>, 1),
     Twist("", <<"c1">>, 2, << >>, 1),
     Twist("", <<"c1", "c1">>, 2, <<"f">>, 1),
     Twist("", <<"c1", "c2">>, 3, << >>, 2)}

StarvedCatalog ==
    {[profile EXCEPT !.twist_id = id] : id \in TwistIds, profile \in StarvedProfiles}

\* Such a twist alone, or before or after a twist of the other id.
StarvedRegistries ==
    {<<x>> : x \in StarvedCatalog}
    \cup {pair \in (StarvedCatalog \X RevealCatalog) \cup (RevealCatalog \X StarvedCatalog) :
               pair[1].twist_id # pair[2].twist_id}

InitStarved ==
    /\ r_pc = "call"
    /\ t_twists \in StarvedRegistries
    /\ t_revealed_twists \in {{}, {"t2"}}
    /\ h_marked_revealed = t_revealed_twists
    /\ \E counts \in [TwistIds -> 0..MaxForeshadow] :
         t_foreshadowed = [id \in {x \in TwistIds : counts[x] > 0} |-> counts[id]]
    /\ t_red_herrings = << >> /\ t_deployed_herrings = {}
    /\ h_marked_deployed = {}
    /\ t_op = "new" /\ t_story = EmptyDict /\ t_noise = << >>
    /\ t_returned = << >>
    /\ IdleKarma /\ IdleFaction /\ IdleCond /\ IdleGraph /\ IdleRest

SpecStarved == InitStarved /\ [][NextReveal]_vars

(***************************************************************************)
(* SpecRace: two requests on one room, each /update-progress or            *)
(* /process-response, served concurrently. A handler runs without          *)
(* interruption from one await to the next, so each step below is what a   *)
(* handler does between two awaits that touch the progress row or the      *)
(* cached story state; the steps of the two requests interleave freely.    *)
(***************************************************************************)
MaxRaceChange == 30

Requests == {1, 2}

RaceHandlers == {"update_progress", "process_response"}

\* karma_change of a ProgressUpdate, or the karma marker of a response.
RaceChanges == {0 - MaxRaceChange, 0, 10, MaxRaceChange}

\* The karma of the row before the two requests.
RaceKarmas == {0, 50, 90, 100}

\* new_karma = max(0, min(100, progress["karma"] + karma_change))
NewKarma(progress_karma, karma_change) ==
    Max(0, Min(100, progress_karma + karma_change))

InitRace ==
    /\ x_kind \in [Requests -> RaceHandlers]
    /\ x_change \in [Requests -> RaceChanges]
    /\ x_pc = [r \in Requests |-> "start"]
    /\ x_progress = [r \in Requests |-> None]
    /\ x_karma \in RaceKarmas
    /\ x_cached \in {None, Some(x_karma)}
    /\ h_karma = x_karma
    /\ IdleButRace

\* update_progress with a karma_change that is falsy: no row is read,
\* update_room_progress gets karma=None and redis_updates has no karma.
UpdateWithoutKarma ==
    \E r \in Requests :
        /\ x_pc[r] = "start"
        /\ x_kind[r] = "update_progress" /\ x_change[r] = 0
        /\ x_pc' = [x_pc EXCEPT ![r] = "done"]
        /\ UNCHANGED <<x_kind, x_change, x_progress, x_karma, x_cached,
                       h_karma, varsButRace>>

\* progress = await db_client.get_room_progress(room_id)
GetRoomProgress ==
    \E r \in Requests :
        /\ x_pc[r] = "start"
        /\ x_kind[r] = "update_progress" => x_change[r] # 0
        /\ x_progress' = [x_progress EXCEPT ![r] = Some(x_karma)]
        /\ x_pc' = [x_pc EXCEPT ![r] = "read"]
        /\ UNCHANGED <<x_kind, x_change, x_karma, x_cached, h_karma,
                       varsButRace>>

\* new_karma from the row that was read, then
\* await db_client.update_room_progress(room_id, karma=new_karma)
WriteRoomProgress ==
    \E r \in Requests :
        /\ x_pc[r] = "read"
        /\ x_karma' = StoredKarma(NewKarma(x_progress[r][1], x_change[r]))
        /\ x_pc' = [x_pc EXCEPT ![r] = "stored"]
        /\ UNCHANGED <<x_kind, x_change, x_progress, x_cached, h_karma,
                       varsButRace>>

\* await redis_client.update_story_state(room_id, {"karma": new_karma}),
\* and the handler's return. The state the function reads and the state it
\* writes back differ in no key but karma here.
WriteStoryState ==
    \E r \in Requests :
        /\ x_pc[r] = "stored"
        /\ x_cached' = Some(NewKarma(x_progress[r][1], x_change[r]))
        /\ x_pc' = [x_pc EXCEPT ![r] = "done"]
        /\ UNCHANGED <<x_kind, x_change, x_progress, x_karma, h_karma,
                       varsButRace>>

NextRace ==
    UpdateWithoutKarma \/ GetRoomProgress \/ WriteRoomProgress \/ WriteStoryState

SpecRace == InitRace /\ [][NextRace]_vars

(***************************************************************************)
(* SpecCache: the requests that read or write a room's progress row and    *)
(* its cached story state, one after the other, from a room that has no    *)
(* progress yet: /initialize-progress, /story-state, /process-decision,    *)
(* /update-progress and /process-response                                  *)
(***************************************************************************)
\* The keys of the cached state that the progress row also holds.
CachedState(current_act, current_chapter, current_scene, karma) ==
    [current_act |-> current_act, current_chapter |-> current_chapter,
     current_scene |-> current_scene, karma |-> karma]

InitCache ==
    /\ y_exists = FALSE
    /\ p_op = "start" /\ p_karma_change = 0
    /\ p_progress = RoomProgress(1, 1, 1, 50, {}, EmptyDict, << >>, None)
    /\ p_story_state = None /\ p_pending = None /\ p_ai_context = FALSE
    /\ IdleButRoom

\* POST /initialize-progress for a room and a campaign that exist: refused
\* (400) when the room has progress; else create_room_progress inserts the
\* row with the columns' defaults and the handler caches a state of act 1,
\* chapter 1, scene 1 and karma 50.
InitializeProgress ==
    /\ ~y_exists
    /\ y_exists' = TRUE
    /\ p_progress' = RoomProgress(1, 1, 1, 50, {}, EmptyDict, << >>, None)
    /\ p_story_state' = Some(CachedState(1, 1, 1, 50))
    /\ p_op' = "initialize_progress"
    /\ UNCHANGED <<p_karma_change, p_pending, p_ai_context, varsButRoom>>

\* GET /story-state/{room_id}: the cached state when there is one, else a
\* state built from the progress row, which set_story_state caches.
GetStoryState ==
    /\ y_exists
    /\ p_story_state' =
           IF p_story_state # None THEN p_story_state
           ELSE Some(CachedState(p_progress.current_act,
                                 p_progress.current_chapter,
                                 p_progress.current_scene, p_progress.karma))
    /\ p_op' = "story_state"
    /\ UNCHANGED <<y_exists, p_karma_change, p_progress, p_pending,
                   p_ai_context, varsButRoom>>

\* The story-state key expires (setex with redis_ttl_story_state).
StoryStateExpires ==
    /\ p_story_state # None
    /\ p_story_state' = None
    /\ p_op' = "expired"
    /\ UNCHANGED <<y_exists, p_karma_change, p_progress, p_pending,
                   p_ai_context, varsButRoom>>

\* The three other requests, on a room that has its progress row.
DecisionOnRoom == y_exists /\ ProcessDecision
UpdateOnRoom == y_exists /\ UpdateProgress
ResponseOnRoom == y_exists /\ ProcessResponse

NextCache ==
    \/ InitializeProgress
    \/ GetStoryState
    \/ StoryStateExpires
    \/ DecisionOnRoom
    \/ UpdateOnRoom
    \/ ResponseOnRoom

SpecCache == InitCache /\ [][NextCache]_vars

(***************************************************************************)
(* Claims on the karma ledger (SpecKarma)                                  *)
(***************************************************************************)
\* C1: for every integer current karma and every integer change,
\* apply_karma_change returns a new karma within [0,100].
C1_NewKarmaInRange == k_pc = "ret" => (0 <= k_new /\ k_new <= 100)

\* The sum leaves [0,100] at the top and the call returned 100.
C1_Witness == k_pc = "ret" /\ k_current + k_change > 100 /\ k_new = 100

\* The six fixed ranges 0-9, 10-29, 30-49, 50-69, 70-89, 90-100, numbered
\* from the bottom; a karma outside [0,100] counts as the nearest end, as
\* get_karma_level reads it.
C2_Band(v) ==
    IF v <= 9 THEN 1 ELSE IF v <= 29 THEN 2 ELSE IF v <= 49 THEN 3
    ELSE IF v <= 69 THEN 4 ELSE IF v <= 89 THEN 5 ELSE 6

\* C2: apply_karma_change returns level_changed = true exactly when the
\* level range of the karma before the change differs from the level range
\* of the clamped karma after it; karma 50 with change -60 gives karma 0
\* and level_changed true.
C2_LevelChangedIffBandDiffers ==
    k_pc = "ret" =>
        /\ k_level_changed <=> (C2_Band(k_current) # C2_Band(k_new))
        /\ (k_current = 50 /\ k_change = 0 - 60) =>
               (k_new = 0 /\ k_level_changed)

\* The scenario of the claim: 50 - 60 is clamped to 0, neutral becomes villano.
C2_Witness ==
    k_pc = "ret" /\ k_current = 50 /\ k_change = 0 - 60
    /\ k_new = 0 /\ k_level_changed

(***************************************************************************)
(* Claims on the faction ledger (SpecFaction)                              *)
(***************************************************************************)
\* The updated faction's value before the call (50 when it has no entry)
\* and its value in the returned map.
F_Old == IF f_faction \in DOMAIN f_standings THEN f_standings[f_faction] ELSE 50
F_New == f_new[f_faction]

\* C3: when every value of the given map is within [0,100], every value of
\* the returned map (the updated faction, the factions the change is
\* propagated to, and the others) is within [0,100].
C3_StandingsInRange ==
    (f_pc = "ret" /\ \A g \in DOMAIN f_standings :
                        0 <= f_standings[g] /\ f_standings[g] <= 100)
        => \A g \in DOMAIN f_new : 0 <= f_new[g] /\ f_new[g] <= 100

\* A loss with the crown pushes the rival order past 100, where it is clamped.
C3_Witness ==
    /\ f_pc = "ret" /\ f_faction = "corona"
    /\ "orden_llama" \in DOMAIN f_standings
    /\ 2 * f_standings["orden_llama"] - f_change > 200
    /\ f_new["orden_llama"] = 100

\* The value crosses t upward / downward between the call and the return.
C4_Up(t)   == F_Old < t /\ t <= F_New
C4_Down(t) == F_Old >= t /\ t > F_New

\* The event ev when the updated faction is g and its crossing cond happened.
C4_When(g, cond, ev) == IF f_faction = g /\ cond THEN {<<g, ev>>} ELSE {}

\* The events the claim expects for the updated faction.
C4_Expected ==
    C4_When("corona", C4_Up(60), "trust_gained")
    \cup C4_When("corona", C4_Down(60), "trust_lost")
    \cup C4_When("corona", C4_Down(30), "turned_hostile")
    \cup C4_When("corona", C4_Up(80), "hero_status")
    \cup C4_When("pueblo", C4_Up(80), "hero_status")
    \cup C4_When("pueblo", C4_Down(20), "villain_status")
    \cup C4_When("orden_llama", F_Old > 0 - 40 /\ 0 - 40 >= F_New,
                 "recruitment_attempt")

\* C4: update_faction_standing emits an event exactly when the updated
\* faction's value before the call and its clamped value after it lie on
\* opposite sides of that threshold in the threshold's direction (trust up
\* and down at 60, betray down at 30, hero up at 80, villain down at 20,
\* recruit down at -40), each event once, and never an event of another
\* faction, even when propagation moves that faction across its threshold.
C4_EventsExactlyOnCrossing ==
    f_pc = "ret" =>
        /\ Range(f_events) = C4_Expected
        /\ Len(f_events) = Cardinality(C4_Expected)
        /\ \A i \in DOMAIN f_events : f_events[i][1] = f_faction

\* The crown rises from below 60 to 80: trust gained and hero status, in
\* that order.
C4_Witness ==
    /\ f_pc = "ret" /\ f_faction = "corona"
    /\ F_Old < 60 /\ F_New >= 80
    /\ f_events = << <<"corona", "trust_gained">>, <<"corona", "hero_status">> >>

\* A faction code unknown to the ledger: no configured thresholds, no
\* hard-coded relations, no entry in the given map.
C5_Unknown ==
    /\ f_faction \notin DOMAIN FACTION_THRESHOLDS
    /\ f_faction \notin DOMAIN FactionRelations
    /\ f_faction \notin DOMAIN f_standings

RECURSIVE G_Closure(_)
G_Closure(S) ==
    LET T == S \cup {v \in NodeIds : \E u \in S : <<u, v>> \in DOMAIN g_edges}
    IN  IF T = S THEN S ELSE G_Closure(T)

\* The endings other than the current node that a directed path leads to.
G_ReachableEndings ==
    {e \in g_endings : e # q_node /\ e \in G_Closure({q_node})}

\* The query returned (its current node is a node of the graph).
G_Returned == g_pc = "ret" /\ ~q_raised

G_Abs(x) == IF x >= 0 THEN x ELSE 0 - x

\* The sum of the returned percentages, in tenths.
G_Sum == SumOver(q_result, DOMAIN q_result)

\* The sum of the ending weights before the normalisation.
G_TotalWeight == SumOver(q_weights, DOMAIN q_weights)

C7_Seqs == UNION {[1..n -> NodeIds] : n \in 2..Cardinality(NodeIds)}

\* The simple directed paths from the current node to e.
C7_Paths(e) ==
    {p \in C7_Seqs :
        /\ p[1] = q_node /\ p[Len(p)] = e
        /\ \A i, j \in 1..Len(p) : p[i] = p[j] => i = j
        /\ \A i \in 1..(Len(p) - 1) : <<p[i], p[i + 1]>> \in DOMAIN g_edges}

\* The product over the first n edges of p of base probability (in halves)
\* times 0.1 (in tenths) for an edge whose condition is not satisfied.
RECURSIVE C7_Product(_, _)
C7_Product(p, n) ==
    IF n = 0 THEN 1
    ELSE LET edge == g_edges[<<p[n], p[n + 1]>>]
             unsatisfied ==
                 /\ edge.condition.t = "str" /\ edge.condition.s # << >>
                 /\ ~CheckCondition(edge.condition.s, q_decisions, q_flags)
         IN  edge.probability * (IF unsatisfied THEN 1 ELSE 10)
             * C7_Product(p, n - 1)

\* The weight of path p in the unit of q_weights.
C7_Weight(p) == C7_Product(p, Len(p) - 1) * Pow(20, MaxPathEdges - (Len(p) - 1))

\* The weight the claim gives ending e (1.0 for the current node itself).
C7_Best(e) ==
    IF e = q_node THEN Pow(20, MaxPathEdges)
    ELSE SetMax({C7_Weight(p) : p \in C7_Paths(e)})

\* C7 as claimed: each ending's weight is the maximum path weight, and its
\* reported percentage is exactly weight / total * 100.
C7_ExactPercentage ==
    G_Returned =>
        \A e \in DOMAIN q_result :
            /\ q_weights[e] = C7_Best(e)
            /\ G_TotalWeight > 0 =>
                   q_result[e] * G_TotalWeight = 1000 * q_weights[e]

\* C7, amended: each ending's weight is the maximum over the simple paths
\* of the product of base probabilities times 0.1 per unsatisfied edge; the
\* reported percentage is weight / total * 100 rounded to one decimal
\* place, and 0.0 when the total is zero; one reachable ending of positive
\* weight is reported at 100.0.
C7_MaxWeightRoundedPercentage ==
    G_Returned =>
        \A e \in DOMAIN q_result :
            /\ q_weights[e] = C7_Best(e)
            /\ G_TotalWeight > 0 =>
                   2 * G_Abs(q_result[e] * G_TotalWeight - 1000 * q_weights[e])
                       <= G_TotalWeight
            /\ G_TotalWeight = 0 => q_result[e] = 0
            /\ (DOMAIN q_result = {e} /\ q_weights[e] > 0) => q_result[e] = 1000

\* An ending with two paths of different weights, the better one with an
\* unsatisfied condition, next to a second ending.
C7_Witness ==
    /\ G_Returned
    /\ Cardinality(DOMAIN q_result) = 2
    /\ \E e \in DOMAIN q_result :
          /\ \E p1, p2 \in C7_Paths(e) :
                /\ C7_Weight(p1) > C7_Weight(p2)
                /\ C7_Weight(p1) < Pow(20, MaxPathEdges - 1)
          /\ q_weights[e] > 0
          /\ q_result[e] * G_TotalWeight # 1000 * q_weights[e]

(***************************************************************************)
(* Claims on edge conditions (SpecCond)                                    *)
(***************************************************************************)
\* The positions of the colons of the condition.
C8_Colons == {i \in 1..Len(c_condition) : c_condition[i] = ":"}
C8_First  == CHOOSE i \in C8_Colons : \A j \in C8_Colons : i <= j
C8_Last   == CHOOSE i \in C8_Colons : \A j \in C8_Colons : i >= j

\* name:expected
C8_Name     == SubSeq(c_condition, 1, C8_First - 1)
C8_Expected == SubSeq(c_condition, C8_First + 1, Len(c_condition))
\* The flag's value as a string ("None" when the flag is absent) and its truth.
C8_FlagPresent == C8_Name \in DOMAIN c_flags
C8_FlagStr == IF C8_FlagPresent THEN c_flags[C8_Name].s ELSE <<"N", "o", "n", "e">>
C8_FlagTruthy ==
    /\ C8_FlagPresent
    /\ c_flags[C8_Name] \notin {PyNone, PyBool(FALSE), PyStr(<< >>), PyInt0}

\* decision:code:option
C8_IsDecision ==
    /\ Cardinality(C8_Colons) = 2
    /\ SubSeq(c_condition, 1, C8_First - 1) = S_decision
C8_Code   == SubSeq(c_condition, C8_First + 1, C8_Last - 1)
C8_Option == SubSeq(c_condition, C8_Last + 1, Len(c_condition))
C8_ChoiceMatches ==
    /\ C8_Code \in DOMAIN c_decisions
    /\ c_decisions[C8_Code] = PyStr(C8_Option)

\* C8 as claimed: with the expected part compared to "true" and "false" as
\* written.
C8_ConditionAsWritten ==
    c_pc = "ret" =>
        c_result =
            IF Cardinality(C8_Colons) = 1
            THEN IF C8_Expected = S_true THEN C8_FlagTruthy
                 ELSE IF C8_Expected = S_false THEN ~C8_FlagTruthy
                 ELSE C8_FlagStr = C8_Expected
            ELSE IF C8_IsDecision THEN C8_ChoiceMatches
            ELSE TRUE

\* C8, amended: name:true is satisfied iff the flag is present and truthy,
\* name:false iff it is absent or falsy, both whatever the letter case of
\* true / false; name:<any other literal> iff the flag's value as a string
\* (None for an absent flag) equals the literal; decision:<code>:<option> iff
\* the recorded choice equals the option; every other shape is satisfied.
C8_ConditionIgnoringCase ==
    c_pc = "ret" =>
        c_result =
            IF Cardinality(C8_Colons) = 1
            THEN IF Lower(C8_Expected) = S_true THEN C8_FlagTruthy
                 ELSE IF Lower(C8_Expected) = S_false THEN ~C8_FlagTruthy
                 ELSE C8_FlagStr = C8_Expected
            ELSE IF C8_IsDecision THEN C8_ChoiceMatches
            ELSE TRUE

\* x:FALSE is satisfied although the flag x is absent.
C8_Witness ==
    /\ c_pc = "ret"
    /\ c_condition = <<"x", ":", "F", "A", "L", "S", "E">>
    /\ <<"x">> \notin DOMAIN c_flags
    /\ c_result = TRUE

(***************************************************************************)
(* Claims on the twist scheduler (SpecTwist, SpecReveal)                   *)
(***************************************************************************)
\* C9: on one TwistEngine, whatever calls were made in whatever order, a
\* check_revelation_timing call never returns a twist whose id was passed
\* to mark_revealed before it, and a check_red_herring_deployment call
\* never returns a herring whose id was passed to mark_herring_deployed
\* before it.
C9_MarkedNeverReturned ==
    /\ t_op = "check_revelation_timing" =>
           \A i \in 1..Len(t_returned) :
               t_returned[i].twist_id \notin h_marked_revealed
    /\ t_op = "check_red_herring_deployment" =>
           \A i \in 1..Len(t_returned) :
               t_returned[i].herring_id \notin h_marked_deployed

\* A check_revelation_timing call returns a twist while a registered twist
\* that was marked revealed meets every other requirement of the same
\* story state.
C9_Witness ==
    /\ t_op = "check_revelation_timing"
    /\ t_returned # << >>
    /\ \E i \in 1..Len(t_twists) :
          /\ t_twists[i].twist_id \in h_marked_revealed
          /\ IsCandidate(t_twists[i], {}, t_foreshadowed, t_story)

\* The requirements of C10 on the twist at position i, read from the story
\* state of the call.
C10_Act     == IF "current_act" \in DOMAIN t_story THEN t_story.current_act ELSE 1
C10_Clues   == IF "revealed_clues" \in DOMAIN t_story THEN t_story.revealed_clues ELSE {}
C10_Flags   == IF "story_flags" \in DOMAIN t_story THEN t_story.story_flags ELSE EmptyDict
C10_Tension == IF "tension_level" \in DOMAIN t_story THEN t_story.tension_level ELSE "normal"

C10_Found(i) ==
    Cardinality({c \in C10_Clues :
                    \E n \in 1..Len(t_twists[i].required_clues) :
                        t_twists[i].required_clues[n] = c})

\* The readiness of the twist at position i as the exact sum, which is at
\* least 7/10 exactly when the float sum is at least 0.7, and as the float
\* the call computed and sorted by.
C10_Score(i) ==
    CalculateReadiness(t_twists[i], C10_Found(i), t_foreshadowed, t_story,
                       C10_Tension)

C10_Readiness(i) == ReadinessFloat(C10_Score(i), t_noise[i])

C10_Eligible(i) ==
    /\ t_twists[i].twist_id \notin t_revealed_twists
    /\ C10_Act >= t_twists[i].required_act
    /\ \A n \in 1..Len(t_twists[i].required_flags) :
           LET f == t_twists[i].required_flags[n]
           IN  /\ f \in DOMAIN C10_Flags
               /\ C10_Flags[f] \notin {PyNone, PyBool(FALSE), PyStr(<< >>), PyInt0}
    /\ C10_Found(i) >= t_twists[i].min_clues_for_reveal
    /\ C10_Score(i) >= ReadinessThreshold

\* C10: check_revelation_timing returns a twist only if it is unrevealed,
\* the current act is at least its required act, all its required flags are
\* truthy, the required clues found are at least its minimum and its
\* readiness is at least 0.7; of the twists that meet all five it returns
\* the one of highest readiness, the earliest registered on a tie; it
\* returns none exactly when no twist meets all five.
C10_ReturnsBestEligible ==
    r_pc = "ret" =>
        /\ t_returned = << >> <=> ~(\E i \in 1..Len(t_twists) : C10_Eligible(i))
        /\ t_returned # << >> =>
               \E i \in 1..Len(t_twists) :
                   /\ t_returned = <<t_twists[i]>>
                   /\ C10_Eligible(i)
                   /\ \A j \in 1..Len(t_twists) :
                          C10_Eligible(j) =>
                              /\ C10_Readiness(j) <= C10_Readiness(i)
                              /\ C10_Readiness(j) = C10_Readiness(i) => i <= j

\* Two registered twists meet all five requirements with the same
\* readiness, and the first registered is returned.
C10_Witness ==
    /\ r_pc = "ret"
    /\ Len(t_twists) = 2
    /\ C10_Eligible(1) /\ C10_Eligible(2)
    /\ C10_Readiness(1) = C10_Readiness(2)
    /\ t_returned = <<t_twists[1]>>


(***************************************************************************)
(* Claims on foreshadowing (SpecForeshadow)                                *)
(***************************************************************************)
\* C11: a foreshadowing element whose hint was returned by
\* generate_foreshadowing and then recorded with record_foreshadowing is
\* not among the hints of any later generate_foreshadowing call.
C11_UsedNotEmittedAgain ==
    t_op = "generate_foreshadowing" =>
        \A n \in 1..Len(t_emitted) : t_emitted[n] \notin h_used

\* C12: generate_foreshadowing returns at most 3 hints, in non-increasing
\* order of priority, each of a registered twist that is not revealed and
\* whose required act is at most the current act plus 2.
C12_ThreeSortedUnrevealedNear ==
    t_op = "generate_foreshadowing" =>
        /\ Len(t_returned) <= 3
        /\ \A i, j \in 1..Len(t_returned) :
               i < j => t_returned[i].priority >= t_returned[j].priority
        /\ \A i \in 1..Len(t_returned) :
               \E n \in 1..Len(t_twists) :
                   /\ t_twists[n].twist_id = t_returned[i].twist_id
                   /\ t_twists[n].twist_id \notin t_revealed_twists
                   /\ t_twists[n].required_act
                          <= (IF "current_act" \in DOMAIN t_story
                              THEN t_story.current_act ELSE 1) + 2

\* Three hints of two twists are returned, the first of a higher priority
\* than the last, out of four elements that match the scene.
C12_Witness ==
    /\ t_op = "generate_foreshadowing"
    /\ Len(t_returned) = 3
    /\ t_returned[1].priority > t_returned[3].priority
    /\ t_returned[1].twist_id # t_returned[3].twist_id
    /\ Len(HintsUpTo(t_twists, t_revealed_twists, t_foreshadowed, t_story,
                     t_scene_type, Len(t_twists))) > 3

(***************************************************************************)
(* Claims on the NPC brain and the /npc-reaction handler                   *)
(***************************************************************************)
\* C13: over the /npc-reaction requests on one relationship, whose flags
\* the handler sets as soon as a trigger fires and never resets,
\* triggers_betrayal is true in at most one reaction, triggers_redemption
\* in at most one, and the two never both fire for the relationship, in
\* the same reaction or in different ones.
C13_OneShotAndExclusive ==
    /\ h_betrayals <= 1
    /\ h_redemptions <= 1
    /\ h_betrayals + h_redemptions <= 1

\* C14: calculate_reaction returns triggers_betrayal = true exactly when
\* the relationship is not already betrayed, the NPC's true role is set and
\* differs from its apparent role, and score + change is below T, where T
\* is the NPC's betrayal threshold whenever one is configured (0 included)
\* and the default 30 only when none is.
C14_T ==
    IF n_npc.betrayal_threshold # None THEN n_npc.betrayal_threshold[1]
    ELSE betrayal_threshold_default

C14_BetrayalExactlyBelowConfigured ==
    n_pc = "ret" =>
        (n_reaction.triggers_betrayal
            <=> /\ ~n_relationship.betrayal_triggered
                /\ n_npc.true_role \notin {None, Some("")}
                /\ n_npc.true_role # Some(n_npc.apparent_role)
                /\ n_relationship.relationship_score
                       + n_reaction.relationship_change < C14_T)

\* C15: calculate_reaction reveals the first secret the relationship does
\* not know exactly when there is one and either the projected trust is at
\* least 80 and the action is saved, defended or trusted, or it is at least
\* 70 after at least 5 interactions and the action is friendly, helped or
\* honest; the projected trust is the trust level plus the trust change of
\* this reaction.
C15_Unknown ==
    SelectSeq(n_npc.secrets, LAMBDA secret :
        secret \notin Range(n_relationship.known_secrets))

C15_ProjectedTrust == n_relationship.trust_level + n_reaction.trust_change

C15_RevealsOnProjectedTrust ==
    n_pc = "ret" =>
        n_reaction.reveals_secret =
            IF /\ C15_Unknown # << >>
               /\ \/ /\ C15_ProjectedTrust >= 80
                     /\ n_action_type \in {"saved", "defended", "trusted"}
                  \/ /\ C15_ProjectedTrust >= 70
                     /\ n_relationship.interactions_count >= 5
                     /\ n_action_type \in {"friendly", "helped", "honest"}
            THEN Some(C15_Unknown[1])
            ELSE None

\* C16: after any sequence of /npc-reaction requests on a relationship whose
\* score and trust start within [0,100], the score and the trust written to
\* the relationship store and to the NPC memory cache are within [0,100].
C16_WrittenWithinRange ==
    /\ n_relationship.relationship_score \in 0..100
    /\ n_relationship.trust_level \in 0..100
    /\ n_memory # None =>
           /\ n_memory[1].relationship \in 0..100
           /\ n_memory[1].trust \in 0..100

\* C20: _calculate_emotional_transition returns
\* EMOTIONAL_TRANSITIONS[current][trigger] when that entry exists and the
\* current state otherwise, where the trigger is the action_to_trigger entry
\* of the action type or, for an action type without one, positive_action
\* when the change is above 5, negative_action when it is below -5, and no
\* trigger otherwise.
C20_Trigger ==
    IF e_action_type \in DOMAIN ActionToTrigger
    THEN Some(ActionToTrigger[e_action_type])
    ELSE IF e_relation_change > 5 THEN Some("positive_action")
    ELSE IF e_relation_change < -5 THEN Some("negative_action")
    ELSE None

C20_EntryExists ==
    /\ C20_Trigger # None
    /\ e_current_state \in DOMAIN EMOTIONAL_TRANSITIONS
    /\ C20_Trigger[1] \in DOMAIN EMOTIONAL_TRANSITIONS[e_current_state]

C20_TransitionOrCurrent ==
    e_pc = "ret" =>
        e_new_state = IF C20_EntryExists
                      THEN EMOTIONAL_TRANSITIONS[e_current_state][C20_Trigger[1]]
                      ELSE e_current_state

\* A hostile NPC and an action type without a trigger whose change is above
\* 5: the positive_action entry makes it suspicious.
C20_Witness ==
    /\ e_pc = "ret"
    /\ e_action_type \notin DOMAIN ActionToTrigger
    /\ e_relation_change > 5
    /\ e_current_state = "hostile"
    /\ e_new_state = "suspicious"

(***************************************************************************)
(* Claims on the room progress                                             *)
(***************************************************************************)
\* C17: after any sequence of /process-decision, /update-progress and
\* /process-response requests with arbitrary integer karma effects, the
\* karma stored in the room progress and the karma written to the cached
\* story state are within [0,100].
C17_KarmaWithinRange ==
    /\ p_progress.karma \in 0..100
    /\ (p_story_state # None /\ "karma" \in DOMAIN p_story_state[1]) =>
           p_story_state[1]["karma"] \in 0..100

\* A decision whose karma effect alone exceeds the range was processed,
\* and one whose effect is below its negative was written to the cache.
C17_Witness ==
    \/ /\ p_op = "process_decision" /\ p_karma_change > 100
       /\ p_progress.karma = 100
    \/ /\ p_op = "process_response" /\ p_karma_change < -100
       /\ p_progress.karma = 0 /\ p_story_state[1]["karma"] = 0

(***************************************************************************)
(* Claims on the action classifier (SpecAnalyzer)                          *)
(***************************************************************************)
\* The entries of ACTION_PATTERNS whose score is the highest, given the
\* number of matching patterns of each entry.
C18_Top(counts) ==
    {n \in Scored(counts) :
        \A m \in Scored(counts) : ~ScoreAbove(ACTION_PATTERNS, counts, m, n)}

\* The position of an action type in the ActionType enumeration.
C18_Position(action_type) ==
    CHOOSE n \in 1..Len(ActionType) : ActionType[n] = action_type

\* C18 as stated: when several action types tie for the highest match
\* score, _classify_action_type returns the one that comes first in the
\* order of the ActionType enumeration.
C18_FirstInEnumerationOrder ==
    a_pc = "classified" =>
        LET top == C18_Top(MatchCounts(ACTION_PATTERNS, a_message))
        IN  top # {} =>
                \E n \in top :
                    /\ a_action_type = ACTION_PATTERNS[n].action_type
                    /\ \A m \in top :
                           C18_Position(ACTION_PATTERNS[n].action_type)
                               <= C18_Position(ACTION_PATTERNS[m].action_type)

\* C18 amended: when several action types tie for the highest match score,
\* _classify_action_type returns the one that comes first in the order of
\* the ACTION_PATTERNS table (dialogue, combat, stealth, exploration,
\* investigation, social, magic, item_use, rest, travel).
C18_FirstInTableOrder ==
    a_pc = "classified" =>
        LET top == C18_Top(MatchCounts(ACTION_PATTERNS, a_message))
        IN  top # {} =>
                \E n \in top :
                    /\ a_action_type = ACTION_PATTERNS[n].action_type
                    /\ \A m \in top : n <= m

\* Exploration and combat tie for the highest score and combat, the earlier
\* in the table and the later in the enumeration, is returned.
C18_Witness ==
    /\ a_pc = "classified"
    /\ a_action_type = "combat"
    /\ LET top == C18_Top(MatchCounts(ACTION_PATTERNS, a_message))
       IN  {ACTION_PATTERNS[n].action_type : n \in top}
               = {"exploration", "combat"}

\* The entries of NPC_INTERACTION_PATTERNS with a pattern that matches.
C19_Matching == Scored(MatchCounts(NPC_INTERACTION_PATTERNS, a_message))

C19_Target == DetectTargetNpc(a_message, a_active_npcs)

\* C19: with a target NPC detected, _detect_npc_interactions records for it
\* the first interaction style of the table (friendly, hostile, deceptive,
\* confrontation, seductive, professional) that matches the message, and
\* "neutral" when none matches; without a target it returns an empty map.
C19_FirstMatchingStyle ==
    a_pc = "detected" =>
        LET matching == C19_Matching
        IN  IF C19_Target = None THEN a_interactions = EmptyDict
            ELSE IF matching = {}
            THEN a_interactions = DictSet(EmptyDict, C19_Target[1], "neutral")
            ELSE \E n \in matching :
                     /\ \A m \in matching : n <= m
                     /\ a_interactions =
                            DictSet(EmptyDict, C19_Target[1],
                                    NPC_INTERACTION_PATTERNS[n].interaction_type)

(***************************************************************************)
(* Claims on the decision points ahead (SpecAhead)                         *)
(***************************************************************************)
\* The nodes a directed path of at most n edges leads to from current_node.
RECURSIVE C21_Within(_)
C21_Within(n) ==
    IF n = 0 THEN {d_current}
    ELSE LET S == C21_Within(n - 1)
         IN  S \cup {v \in d_nodes :
                        \E u \in S : v \in Range(Successors(d_succ, u))}

C21_Listed == {d_result[i].node_id : i \in DOMAIN d_result}

\* C21: get_decision_points_ahead(current_node, max_depth) returns exactly
\* the decision nodes a directed path of at most max_depth edges leads to
\* from current_node, each listed once, on every graph, with cycles and
\* with several paths of different lengths to one node.
C21_ExactlyDecisionsWithinDepth ==
    (d_pc = "ret" /\ ~d_raised) =>
        /\ C21_Listed = C21_Within(d_max_depth) \cap d_decision_points
        /\ \A i, j \in DOMAIN d_result :
               d_result[i].node_id = d_result[j].node_id => i = j

\* What the code does keep: nothing listed twice, nothing listed that is
\* not a decision node within the depth.
C21_ListedOnceAndWithin ==
    (d_pc = "ret" /\ ~d_raised) =>
        /\ C21_Listed \subseteq C21_Within(d_max_depth) \cap d_decision_points
        /\ \A i, j \in DOMAIN d_result :
               d_result[i].node_id = d_result[j].node_id => i = j

(***************************************************************************)
(* Claims on the graph of a campaign (SpecCampaign)                        *)
(***************************************************************************)
C22_HasEdge(from_node, to_node, condition, probability, label) ==
    /\ <<from_node, to_node>> \in DOMAIN g_edges
    /\ g_edges[<<from_node, to_node>>] =
           [condition |-> condition, probability |-> probability, label |-> label]

\* C22: after build_from_campaign_data, every scene that declares a default
\* next scene has an edge to that scene with probability 1.0 and no
\* condition, and every declared branch trigger has an edge to its target
\* with the trigger's own condition, probability and label, also when a
\* branch trigger targets the scene of the default or of another trigger.
C22_EdgePerDefaultAndTrigger ==
    g_pc = "built" =>
        \A i \in DOMAIN b_campaign.scenes :
            LET scene == b_campaign.scenes[i]
                node_id == SceneNodeId(scene.id)
            IN  /\ scene.next_scene_default # None =>
                       /\ <<node_id, SceneNodeId(scene.next_scene_default[1])>>
                              \in DOMAIN g_edges
                       /\ LET edge == g_edges[<<node_id,
                                        SceneNodeId(scene.next_scene_default[1])>>]
                          IN  edge.probability = 2 /\ edge.condition = PyNone
                /\ \A j \in DOMAIN scene.branch_triggers :
                       LET branch == scene.branch_triggers[j]
                       IN  C22_HasEdge(node_id, SceneNodeId(branch.target_scene),
                                       branch.condition, BranchProbability(branch),
                                       branch.label)

\* The targets a scene declares are all different.
C22_DistinctTargets(scene) ==
    LET targets == [j \in DOMAIN scene.branch_triggers |->
                       scene.branch_triggers[j].target_scene]
    IN  /\ \A j, k \in DOMAIN targets : targets[j] = targets[k] => j = k
        /\ scene.next_scene_default # None =>
               scene.next_scene_default[1] \notin Range(targets)

\* The same holds of the code for the scenes whose targets all differ.
C22_EdgePerDistinctTarget ==
    g_pc = "built" =>
        \A i \in DOMAIN b_campaign.scenes :
            LET scene == b_campaign.scenes[i]
                node_id == SceneNodeId(scene.id)
            IN  C22_DistinctTargets(scene) =>
                /\ scene.next_scene_default # None =>
                       C22_HasEdge(node_id, SceneNodeId(scene.next_scene_default[1]),
                                   PyNone, 2, PyNone)
                /\ \A j \in DOMAIN scene.branch_triggers :
                       LET branch == scene.branch_triggers[j]
                       IN  C22_HasEdge(node_id, SceneNodeId(branch.target_scene),
                                       branch.condition, BranchProbability(branch),
                                       branch.label)

\* The scene nodes: the ids build_from_campaign_data forms from a scene id.
C26_SceneNodes == {SceneNodeId(id) : id \in 0..(MaxSceneId + 1)}

\* C26: in a graph produced only by build_from_campaign_data every edge
\* targets a scene node, so no ending node and no decision node has an
\* incoming edge; find_paths_to_endings from a scene node is then empty and
\* calculate_ending_probabilities from a scene node returns the empty map.
C26_EdgesTargetScenesOnly ==
    /\ g_pc \in {"built", "ret"} =>
           \A e \in DOMAIN g_edges :
               /\ e[2] \in C26_SceneNodes
               /\ e[2] \notin g_endings \cup g_decision_points
    /\ g_pc = "ret" =>
           ~q_raised /\ DOMAIN q_weights = {} /\ q_result = EmptyDict

\* The campaign has endings and edges, a branch edge among them, and the
\* query from a scene node returned.
C26_Witness ==
    /\ g_pc = "ret" /\ ~q_raised /\ q_result = EmptyDict
    /\ g_endings # {} /\ q_node \in C26_SceneNodes
    /\ \E i \in DOMAIN b_campaign.scenes :
           /\ b_campaign.scenes[i].next_scene_default # None
           /\ b_campaign.scenes[i].branch_triggers # << >>
    /\ Cardinality(DOMAIN g_edges) >= 3

C23_WitnessHints ==
    /\ r_pc = "again" /\ t_op = "generate_foreshadowing" /\ t_returned # << >>

(***************************************************************************)
(* Claims on personalities and emotional states                            *)
(***************************************************************************)
\* The reaction to the same action of an NPC of another personality.
C24_ReactionOf(personality) ==
    CalculateReaction([n_npc EXCEPT !.personality = personality],
                      n_relationship, n_action_type)

C24_WitnessModified ==
    /\ n_pc = "ret" /\ n_action_type = "betrayal"
    /\ n_npc.personality.honor = 100
    /\ n_reaction.relationship_change = 0

\* C25: from the emotional state 'neutral', every sequence of
\* calculate_reaction calls, the new state being the current state of the
\* next call, keeps the emotional state within neutral, friendly,
\* suspicious, hostile, fearful; and from 'fearful' no call changes it.
C25_FiveStatesFearfulForGood ==
    /\ [](n_relationship.emotional_state
              \in {"neutral", "friendly", "suspicious", "hostile", "fearful"})
    /\ [][n_relationship.emotional_state = "fearful"
              => n_relationship'.emotional_state = "fearful"]_vars

\* A call made in the state 'fearful': the call before it was not the
\* threat that led there.
C25_Witness ==
    /\ n_relationship.emotional_state = "fearful"
    /\ n_reaction.emotional_response = "fearful"
    /\ n_action_type \in {"friendly", "saved", "betrayed"}

\* 'hostile' is reached, which takes a friendly state and a betrayal.
C25_WitnessHostile ==
    n_relationship.emotional_state = "hostile" /\ n_action_type = "betrayed"

(***************************************************************************)
(* Claims on twists that ask for more clues than they list (SpecStarved)   *)
(***************************************************************************)
C27_Starved(twist) ==
    twist.min_clues_for_reveal > Cardinality(Range(twist.required_clues))

\* C27: a twist whose minimum clue count for reveal is greater than the
\* number of its distinct required clues (a twist without required clues
\* and with the default minimum of 2, for one) is never returned by
\* check_revelation_timing, whatever the story state, the tension level,
\* the act and the number of recorded foreshadowings.
C27_StarvedNeverReturned ==
    r_pc = "ret" =>
        \A i \in DOMAIN t_returned : ~C27_Starved(t_returned[i])

\* The call returned with such a twist registered first, not revealed,
\* every clue revealed, the flag set, the last act, critical tension and
\* three foreshadowings of it: nothing but its clue count holds it back.
C27_Witness ==
    /\ r_pc = "ret"
    /\ C27_Starved(t_twists[1])
    /\ t_twists[1].twist_id \notin t_revealed_twists
    /\ t_story # EmptyDict
    /\ t_story.current_act = MaxAct /\ t_story.revealed_clues = ClueIds
    /\ t_story.tension_level = "critical"
    /\ Truthy(DictGet(t_story.story_flags, "f", PyNone))
    /\ DictGet(t_foreshadowed, t_twists[1].twist_id, 0) = MaxForeshadow
    /\ t_returned = << >>

(***************************************************************************)
(* Claims on concurrent karma changes                                      *)
(***************************************************************************)
\* Both requests have returned.
C28_BothDone == \A r \in Requests : x_pc[r] = "done"

\* C28: when two concurrent /update-progress or /process-response requests
\* with karma changes a and b on a room of karma k have both returned, the
\* karma of the row is clamp(clamp(k+a)+b) or clamp(clamp(k+b)+a), whatever
\* the interleaving of their steps.
C28_KarmaChangesAtomic ==
    (C28_BothDone /\ x_change[1] # 0 /\ x_change[2] # 0) =>
        x_karma \in {Clamp100(Clamp100(h_karma + x_change[1]) + x_change[2]),
                     Clamp100(Clamp100(h_karma + x_change[2]) + x_change[1])}

(***************************************************************************)
(* Claims on the cached story state (SpecCache)                            *)
(***************************************************************************)
\* A request of the five has completed and no later event has occurred.
C29_RequestCompleted ==
    p_op \in {"initialize_progress", "story_state", "process_decision",
              "update_progress", "process_response"}

\* C29: after every completed request, a cached story state of the room
\* holds the karma of the room's progress row.
C29_CachedKarmaIsStoredKarma ==
    (C29_RequestCompleted /\ p_story_state # None) =>
        /\ "karma" \in DOMAIN p_story_state[1]
        /\ p_story_state[1].karma = p_progress.karma

\* The part of C29 that holds: right after /initialize-progress, and after
\* an /update-progress or /process-response that changes karma, the cached
\* karma is the stored karma.
C29_KarmaWritersLeaveCacheCurrent ==
    (\/ p_op = "initialize_progress"
     \/ p_op \in {"update_progress", "process_response"} /\ p_karma_change # 0) =>
        /\ p_story_state # None
        /\ "karma" \in DOMAIN p_story_state[1]
        /\ p_story_state[1].karma = p_progress.karma

(***************************************************************************)
(* Claims on the frame of update_faction_standing (SpecFaction)            *)
(***************************************************************************)
\* The relation of the updated faction to a related faction g.
C30_Relation(g) ==
    LET rels == FactionRelations[f_faction]
    IN  rels[CHOOSE i \in DOMAIN rels : rels[i].faction = g]

\* The returned map against the given one, after the return.
C30_ReturnedMapFrame ==
    f_pc = "ret" =>
        /\ DOMAIN f_standings \subseteq DOMAIN f_new
        /\ \A g \in DOMAIN f_new \ ({f_faction} \cup RelatedOf(f_faction)) :
               g \in DOMAIN f_standings /\ f_new[g] = f_standings[g]
        /\ \A g \in RelatedOf(f_faction) :
               IF g \in DOMAIN f_standings
               THEN f_new[g] = Clamp100(f_standings[g]
                                   + TruncDiv(f_change * C30_Relation(g).num,
                                              C30_Relation(g).den))
               ELSE g \notin DOMAIN f_new

\* C30: update_faction_standing leaves the map it is given as it was; in
\* the returned map every faction but the updated one and its related
\* factions keeps its value, a related faction absent from the given map
\* stays absent, and a related faction present moves by the truncated
\* fraction of the requested change (through the clamp to [0,100]), also
\* when the updated faction itself moved by less than the requested change.
C30_FrameOfUpdate ==
    [] C30_ReturnedMapFrame /\ [][f_standings' = f_standings]_vars

\* The order is raised by 50 from 70 and stops at 100, a move of 30; the
\* crown, present, loses int(50 * 0.3) = 15, not int(30 * 0.3) = 9; the
\* people, absent, stay absent; the merchants' guild keeps its value.
C30_Witness ==
    /\ f_pc = "ret" /\ f_faction = "orden_llama" /\ f_change = 50
    /\ "orden_llama" \in DOMAIN f_standings /\ f_standings["orden_llama"] = 70
    /\ f_new["orden_llama"] = 100
    /\ "corona" \in DOMAIN f_standings
    /\ f_new["corona"] = f_standings["corona"] - 15
    /\ "pueblo" \notin DOMAIN f_standings /\ "pueblo" \notin DOMAIN f_new
    /\ "gremio_mercaderes" \in DOMAIN f_standings
    /\ f_new["gremio_mercaderes"] = f_standings["gremio_mercaderes"]

\* A change of 1 with the crown: the rival order present keeps its value,
\* int(1 * -0.5) being 0.
C30_WitnessTruncated ==
    /\ f_pc = "ret" /\ f_faction = "corona" /\ f_change = 1
    /\ "orden_llama" \in DOMAIN f_standings
    /\ f_new["orden_llama"] = f_standings["orden_llama"]

====
